---- MODULE Spec2Model ----
(***************************************************************************)
(* A model of the ELISA quantification engine: the reader parser           *)
(* (elisaReader), the curve fitters (polynomial, logistic4pl), the         *)
(* standard-curve Auto-QC search (stdCurveAutoQc) and the Auto-QC part of  *)
(* the analysis tab (AnalysisTab).                                         *)
(*                                                                         *)
(* JavaScript numbers are modelled as extended rationals <<n, d>>: a       *)
(* finite value n/d in lowest terms with d > 0, NaN as <<0, 0>>,           *)
(* +Infinity as <<1, 0>> and -Infinity as <<-1, 0>>.  Arithmetic is exact, *)
(* so floating-point rounding is not modelled.                             *)
(***************************************************************************)
EXTENDS Integers, Sequences, FiniteSets, TLC

VARIABLES
    \* ---- suggestStandardCurveExclusions (one call) ----
    inputs,           \* argument: StdLevelInput[]
    curve,            \* argument: CurveKind
    opts,             \* argument: AutoQcOptions
    lmSse,            \* final SSE of the 4PL Levenberg-Marquardt runs so far (by point list)
    pc,               \* position in the call
    levels,           \* normalized levels
    excludedWellIds,  \* Set<string>
    droppedLevels,    \* Set<string>
    actions,          \* AutoQcAction[]
    baselineFit,
    curFit,
    curScore,
    step,
    best,             \* best candidate of the current loop iteration
    result,           \* the returned AutoQcSuggestion
    raw,              \* the arrays x, y of a direct call of a fitter
    fitted,           \* what that call returned
    lm,               \* the locals of a call of fit4pl that is followed step by step
    text,             \* the reader output given to parseElisaReaderText
    parsed,           \* what parseElisaReaderText returned
    \* ---- AnalysisTab ----
    wells,            \* prop: Record<WellId96, WellAssignment>
    stdConcMap,       \* state: the concentration entered for each standard level
    curveModel,       \* state: '4pl' | 'poly'
    curveDegree,      \* state: 2 | 3
    useSuggestedStdExclusions,   \* state
    events,           \* how many events the tab has handled
    blankSubtract,    \* state: the 'Blank subtract' checkbox
    outlierThreshold, \* state: the outlier threshold
    lmParams,         \* the parameters the 4PL Levenberg-Marquardt runs of curveFit end with
    \* ---- library functions called on their own ----
    args,             \* the function called and its arguments
    returned          \* what the call returned

fitVars == <<raw, fitted, lm>>
readerVars == <<text, parsed>>
libVars == <<args, returned>>
sheetVars == <<blankSubtract, outlierThreshold, lmParams>>
tabVars ==
    <<wells, stdConcMap, curveModel, curveDegree, useSuggestedStdExclusions, events, sheetVars>>

\* What a call of suggestStandardCurveExclusions leaves alone.
notQcVars == <<fitVars, readerVars, tabVars, libVars>>

vars == <<inputs, curve, opts, lmSse, pc, levels, excludedWellIds, droppedLevels,
          actions, baselineFit, curFit, curScore, step, best, result, fitVars, readerVars, tabVars,
          libVars>>

(***************************************************************************)
(* Numbers                                                                 *)
(***************************************************************************)
Abs(i) == IF i < 0 THEN -i ELSE i

RECURSIVE Gcd(_, _)
Gcd(a, b) == IF b = 0 THEN a ELSE Gcd(b, a % b)

\* The finite number n/d (d # 0), in lowest terms with a positive denominator.
Num(n, d) ==
    LET g == Gcd(Abs(n), Abs(d))
        s == IF d < 0 THEN -1 ELSE 1
    IN  <<s * (n \div g), s * (d \div g)>>

N(n) == <<n, 1>>
Zero == <<0, 1>>
One == <<1, 1>>
NaN == <<0, 0>>
PosInf == <<1, 0>>
NegInf == <<-1, 0>>

\* Number.isFinite / isFiniteNumber
isFiniteNumber(a) == a[2] # 0

Sign(a) == IF a[1] > 0 THEN 1 ELSE IF a[1] < 0 THEN -1 ELSE 0

Neg(a) == <<-a[1], a[2]>>

\* a + b.  Infinity + (-Infinity) and anything + NaN are NaN.
Add(a, b) ==
    IF isFiniteNumber(a) /\ isFiniteNumber(b)
    THEN Num(a[1] * (b[2] \div Gcd(a[2], b[2])) + b[1] * (a[2] \div Gcd(a[2], b[2])),
             (a[2] \div Gcd(a[2], b[2])) * b[2])
    ELSE IF isFiniteNumber(a) THEN b
    ELSE IF isFiniteNumber(b) \/ a = b THEN a
    ELSE NaN

Sub(a, b) == Add(a, Neg(b))

\* a * b.  Infinity * 0 and anything * NaN are NaN (the sign product is 0).
Mul(a, b) ==
    IF isFiniteNumber(a) /\ isFiniteNumber(b)
    THEN Num((a[1] \div Gcd(Abs(a[1]), b[2])) * (b[1] \div Gcd(Abs(b[1]), a[2])),
             (a[2] \div Gcd(Abs(b[1]), a[2])) * (b[2] \div Gcd(Abs(a[1]), b[2])))
    ELSE <<Sign(a) * Sign(b), 0>>

\* 1 / b: Infinity for 0, 0 for an infinity, NaN for NaN.
Inv(b) == IF b[1] = 0 THEN <<b[2], 0>> ELSE Num(b[2], b[1])

\* a / b.  0/0 and Infinity/Infinity are NaN, x/0 is an infinity of the sign of x.
Div(a, b) == Mul(a, Inv(b))

\* n1/d1 < n2/d2 for positive d1, d2, by comparing the integer parts and then the
\* reciprocals of the fractional parts (no product is formed, so nothing overflows).
RECURSIVE LtFrac(_, _, _, _)
LtFrac(n1, d1, n2, d2) ==
    LET q1 == n1 \div d1
        q2 == n2 \div d2
        r1 == n1 % d1
        r2 == n2 % d2
    IN  IF q1 # q2 THEN q1 < q2
        ELSE IF r2 = 0 THEN FALSE
        ELSE IF r1 = 0 THEN TRUE
        ELSE LtFrac(d2, r2, d1, r1)

\* a < b; every comparison with NaN is false.
Lt(a, b) ==
    IF a = NaN \/ b = NaN THEN FALSE
    ELSE IF isFiniteNumber(a) /\ isFiniteNumber(b)
        THEN LtFrac(a[1], a[2], b[1], b[2])
    ELSE (IF isFiniteNumber(a) THEN 0 ELSE a[1]) < (IF isFiniteNumber(b) THEN 0 ELSE b[1])

Gt(a, b) == Lt(b, a)
Le(a, b) == a # NaN /\ b # NaN /\ ~Lt(b, a)
Ge(a, b) == Le(b, a)

AbsNum(a) == <<Abs(a[1]), a[2]>>

RECURSIVE SumSeq(_)
SumSeq(s) == IF s = <<>> THEN Zero ELSE Add(Head(s), SumSeq(Tail(s)))

(***************************************************************************)
(* Numeric primitives and the polynomial fitter (polynomial.ts)            *)
(***************************************************************************)
\* A missing result (null) of the solver and of the fitters.
NoSolution == [ok |-> FALSE, x |-> <<>>]

\* Math.abs(v) < 1e-12.  Every finite number of the model is a ratio of
\* 32-bit integers, so a non-zero one is at least 1/2^31 > 1e-12 in size.
BelowEps(v) == isFiniteNumber(v) /\ v[1] = 0

\* An array, materialised (the value is f).
Eager(f) == IF f = <<>> THEN <<>> ELSE f

RECURSIVE PivotScan(_, _, _, _, _)
PivotScan(M, col, r, pivotRow, n) ==
    IF r > n THEN pivotRow
    ELSE PivotScan(M, col, r + 1,
                   IF Gt(AbsNum(M[r][col]), AbsNum(M[pivotRow][col])) THEN r ELSE pivotRow, n)

\* Swap the pivot row into place.
SwapRows(M, col, pivotRow) == [M EXCEPT ![col] = M[pivotRow], ![pivotRow] = M[col]]

\* Normalize the pivot row: M[col][c] /= pivot for c >= col.
ScaleRow(M, col, n) ==
    [M EXCEPT ![col] = Eager([c \in 1..(n + 1) |->
                          IF c >= col THEN Div(M[col][c], M[col][col]) ELSE M[col][c]])]

\* Eliminate column col from every other row whose factor is not near zero.
Eliminate(M, col, n) ==
    [r \in 1..n |->
        IF r = col \/ BelowEps(M[r][col]) THEN M[r]
        ELSE Eager([c \in 1..(n + 1) |->
                IF c >= col THEN Sub(M[r][c], Mul(M[r][col], M[col][c])) ELSE M[r][c]])]

RECURSIVE SolveFrom(_, _, _)
RECURSIVE PivotStep(_, _, _, _)

\* One column of the elimination, its pivot row found.
PivotStep(M, col, n, pivotRow) ==
    IF BelowEps(M[pivotRow][col]) THEN NoSolution
    ELSE SolveFrom(Eager(Eliminate(Eager(ScaleRow(SwapRows(M, col, pivotRow), col, n)), col, n)),
                   col + 1, n)

SolveFrom(M, col, n) ==
    IF col > n THEN [ok |-> TRUE, x |-> Eager([i \in 1..n |-> M[i][n + 1]])]
    ELSE PivotStep(M, col, n, PivotScan(M, col, col + 1, col, n))

\* Gauss-Jordan elimination with partial pivoting; null on a near-zero pivot.
solveLinearSystem(A, b) ==
    SolveFrom(Eager([i \in 1..Len(A) |-> Append(A[i], b[i])]), 1, Len(A))

RECURSIVE Horner(_, _, _)
Horner(coeff, x, i) ==
    IF i = 0 THEN Zero ELSE Add(Mul(Horner(coeff, x, i - 1), x), coeff[Len(coeff) - i + 1])

\* y = sum(coeff[i] * x^(i-1)), Horner from the highest coefficient down.
evalPoly(coeff, x) == Horner(coeff, x, Len(coeff))

RECURSIVE Pow(_, _)
Pow(x, k) == IF k = 0 THEN One ELSE Mul(Pow(x, k - 1), x)

Square(a) == Mul(a, a)

\* The mean of y and the squared deviations of y from it.
MeanOf(y) == Div(SumSeq(y), N(Len(y)))
SquaredDeviations(y, m) == SumSeq([i \in 1..Len(y) |-> Square(Sub(y[i], m))])
SsTot(y) == SquaredDeviations(y, MeanOf(y))
SsRes(y, yHat) == SumSeq([i \in 1..Len(y) |-> Square(Sub(y[i], yHat[i]))])

R2(ssRes, ssTot) == IF ssTot = Zero THEN NaN ELSE Sub(One, Div(ssRes, ssTot))

\* 1 - ssRes/ssTot, NaN when all y are identical (ssTot = 0).
r2Score(y, yHat) == R2(SsRes(y, yHat), SsTot(y))

Min2(a, b) == IF a < b THEN a ELSE b

\* All the pairs (x[i], y[i]), finite or not.
RECURSIVE FinitePairsUnfiltered(_, _, _)
FinitePairsUnfiltered(x, y, i) ==
    IF i > Min2(Len(x), Len(y)) THEN <<>>
    ELSE <<[x |-> x[i], y |-> y[i]]>> \o FinitePairsUnfiltered(x, y, i + 1)

\* The pairs (x[i], y[i]) with both entries finite, in order.
RECURSIVE FinitePairs(_, _, _)
FinitePairs(x, y, i) ==
    IF i > Min2(Len(x), Len(y)) THEN <<>>
    ELSE (IF isFiniteNumber(x[i]) /\ isFiniteNumber(y[i])
          THEN <<[x |-> x[i], y |-> y[i]]>> ELSE <<>>)
         \o FinitePairs(x, y, i + 1)

Xs(pairs) == [k \in 1..Len(pairs) |-> pairs[k].x]
Ys(pairs) == [k \in 1..Len(pairs) |-> pairs[k].y]

NoPolyFit == [ok |-> FALSE, degree |-> 0, coeff |-> <<>>, r2 |-> NaN]

\* xpows[k][e] = x_k^(e-1), the powers the normal equations sum.
PowerTable(clean, degree) ==
    Eager([k \in 1..Len(clean) |->
        Eager([e \in 1..(2 * degree + 1) |-> Pow(clean[k].x, e - 1)])])

\* Normal equations A * c = b.
NormalMatrix(xpows, n) ==
    Eager([row \in 1..n |-> Eager([col \in 1..n |->
        SumSeq([k \in 1..Len(xpows) |-> xpows[k][row + col - 1]])])])

NormalVector(clean, xpows, n) ==
    Eager([row \in 1..n |->
        SumSeq([k \in 1..Len(clean) |-> Mul(clean[k].y, xpows[k][row])])])

SolveNormal(clean, xpows, n) ==
    solveLinearSystem(NormalMatrix(xpows, n), NormalVector(clean, xpows, n))

\* The fit of the cleaned pairs, given the solution of their normal equations.
PolyFitOf(clean, degree, sol) ==
    IF ~sol.ok THEN NoPolyFit
    ELSE [ok |-> TRUE, degree |-> degree, coeff |-> sol.x,
          r2 |-> r2Score(Ys(clean),
                         Eager([k \in 1..Len(clean) |-> evalPoly(sol.x, clean[k].x)]))]

PolyFitFrom(clean, degree) ==
    IF Len(clean) < degree + 1 THEN NoPolyFit
    ELSE PolyFitOf(clean, degree, SolveNormal(clean, PowerTable(clean, degree), degree + 1))

fitPolynomial(x, y, degree) == PolyFitFrom(FinitePairs(x, y, 1), degree)

(***************************************************************************)
(* The 4PL fitter (logistic4pl.ts), as far as Auto-QC reads it.            *)
(*                                                                         *)
(* The Levenberg-Marquardt iteration works on exp/log of floating-point    *)
(* numbers and has no exact counterpart here.  Its outcome on a cleaned    *)
(* point list, the final SSE (curSse), is read from the table o, a         *)
(* function of the point list: the fit is a pure function of its points.   *)
(* Everything around the iteration (cleaning, the point-count guard, r2)   *)
(* is computed as the code computes it.                                    *)
(***************************************************************************)
\* The pairs with finite x > 0 and finite y, in order.
RECURSIVE PositivePairs(_, _, _)
PositivePairs(x, y, i) ==
    IF i > Min2(Len(x), Len(y)) THEN <<>>
    ELSE (IF isFiniteNumber(x[i]) /\ Gt(x[i], Zero) /\ isFiniteNumber(y[i])
          THEN <<[x |-> x[i], y |-> y[i]]>> ELSE <<>>)
         \o PositivePairs(x, y, i + 1)

NoFourPLFit == [ok |-> FALSE, r2 |-> NaN, sse |-> NaN, n |-> 0]

\* The fit of the cleaned pairs, given the SSE the iteration ended with.
FourPLFitFrom(clean, sse) ==
    IF Len(clean) < 4 THEN NoFourPLFit
    ELSE [ok |-> TRUE, r2 |-> R2(sse, SsTot(Ys(clean))), sse |-> sse, n |-> Len(clean)]

\* The table is read only when the point count passes the guard.
FourPLFitOf(clean, o) == FourPLFitFrom(clean, o[clean])

fit4pl(xConc, y, o) == FourPLFitOf(PositivePairs(xConc, y, 1), o)

(***************************************************************************)
(* Standard-curve Auto-QC (stdCurveAutoQc.ts)                              *)
(***************************************************************************)
\* Strings that are trimmed are modelled as sequences of characters.
RECURSIVE TrimStart(_)
TrimStart(s) == IF s # <<>> /\ Head(s) = " " THEN TrimStart(Tail(s)) ELSE s

RECURSIVE TrimEnd(_)
TrimEnd(s) == IF s # <<>> /\ s[Len(s)] = " " THEN TrimEnd(SubSeq(s, 1, Len(s) - 1)) ELSE s

Trim(s) == TrimEnd(TrimStart(s))

NoMean == [ok |-> FALSE, v |-> NaN]

mean(values) ==
    LET clean == SelectSeq(values, isFiniteNumber)
    IN  IF clean = <<>> THEN NoMean
        ELSE [ok |-> TRUE, v |-> Div(SumSeq(clean), N(Len(clean)))]

\* FitSummary | null
NoFit == [ok |-> FALSE, r2 |-> NaN, sse |-> NaN, nLevels |-> 0]

\* The 4PL branch, its points cleaned.
FourPLSummary(clean, fit) ==
    IF Len(clean) < 4 \/ ~fit.ok THEN NoFit
    ELSE [ok |-> TRUE, r2 |-> fit.r2, sse |-> fit.sse, nLevels |-> Len(clean)]

\* The polynomial branch, its points cleaned.
PolySummary(clean, degree, fit) ==
    IF Len(clean) < degree + 1 \/ ~fit.ok THEN NoFit
    ELSE [ok |-> TRUE, r2 |-> fit.r2,
          sse |-> SumSeq([k \in 1..Len(clean) |->
                     Square(Sub(clean[k].y, evalPoly(fit.coeff, clean[k].x)))]),
          nLevels |-> Len(clean)]

FourPLSummaryOf(clean, o) == FourPLSummary(clean, fit4pl(Xs(clean), Ys(clean), o))

PolySummaryOf(clean, degree) ==
    PolySummary(clean, degree, fitPolynomial(Xs(clean), Ys(clean), degree))

fitForPoints(points, curveKind, o) ==
    IF curveKind.kind = "4pl"
    THEN FourPLSummaryOf(PositivePairs(Xs(points), Ys(points), 1), o)
    ELSE PolySummaryOf(FinitePairs(Xs(points), Ys(points), 1), curveKind.degree)

\* The score with the sign of r2 flipped.
calcScoreMirrored(fit, excludedWellIdsCount, droppedLevelCount, replicatePenalty, levelPenalty) ==
    Sub(Sub(IF isFiniteNumber(fit.r2) THEN Neg(fit.r2) ELSE NegInf,
            Mul(N(excludedWellIdsCount), replicatePenalty)),
        Mul(N(droppedLevelCount), levelPenalty))

calcScore(fit, excludedWellIdsCount, droppedLevelCount, replicatePenalty, levelPenalty) ==
    LET r2 == IF isFiniteNumber(fit.r2) THEN fit.r2 ELSE NegInf
    IN  Sub(Sub(r2, Mul(N(excludedWellIdsCount), replicatePenalty)),
            Mul(N(droppedLevelCount), levelPenalty))

\* An option of AutoQcOptions: given, or left undefined.
Given(v) == [given |-> TRUE, value |-> v]
Undefined == [given |-> FALSE, value |-> 0]
OrDefault(option, default) == IF option.given THEN option.value ELSE default

DefaultMaxActions == 3
DefaultMaxExcludedWells == 3
DefaultMaxDroppedLevels == 1
DefaultReplicatePenalty == <<1, 200>>
DefaultLevelPenalty == <<1, 100>>
DefaultMinScoreImprove == <<1, 1000>>

\* The options with their defaults filled in.
ResolveOptions(o) ==
    [maxActions |-> OrDefault(o.maxActions, DefaultMaxActions),
     maxExcludedWells |-> OrDefault(o.maxExcludedWells, DefaultMaxExcludedWells),
     maxDroppedLevels |-> OrDefault(o.maxDroppedLevels, DefaultMaxDroppedLevels),
     replicatePenalty |-> OrDefault(o.replicatePenalty, DefaultReplicatePenalty),
     levelPenalty |-> OrDefault(o.levelPenalty, DefaultLevelPenalty),
     minScoreImprove |-> OrDefault(o.minScoreImprove, DefaultMinScoreImprove)]

FiniteY(r) == isFiniteNumber(r.y)

UsableLevel(l) ==
    /\ Len(l.level) > 0
    /\ isFiniteNumber(l.conc) /\ Gt(l.conc, Zero)
    /\ Len(l.replicates) > 0

\* Normalize + filter unusable data early.
NormalizeLevels(in) ==
    SelectSeq([i \in 1..Len(in) |->
                  [level |-> Trim(in[i].level),
                   conc |-> in[i].conc,
                   replicates |-> SelectSeq(in[i].replicates, FiniteY)]],
              UsableLevel)

\* The replicates of a level whose wellId is not excluded.
RECURSIVE Included(_, _)
Included(reps, excluded) ==
    IF reps = <<>> THEN <<>>
    ELSE (IF Head(reps).wellId \in excluded THEN <<>> ELSE <<Head(reps)>>)
         \o Included(Tail(reps), excluded)

\* buildPoints, for a given pair of exclusion sets: one point per level that
\* is not dropped and keeps a replicate, at the mean of its kept replicates.
RECURSIVE buildPoints(_, _, _)
buildPoints(lv, excluded, dropped) ==
    IF lv = <<>> THEN <<>>
    ELSE LET lvl == Head(lv)
             reps == Included(lvl.replicates, excluded)
             y == mean([i \in 1..Len(reps) |-> reps[i].y])
         IN  (IF lvl.level \in dropped \/ reps = <<>> \/ ~y.ok THEN <<>>
              ELSE <<[level |-> lvl.level, x |-> lvl.conc, y |-> y.v, n |-> Len(reps)]>>)
             \o buildPoints(Tail(lv), excluded, dropped)

\* An AutoQcAction without its reason text.
NoAction == [type |-> "none", level |-> <<>>, wellId |-> <<>>]

RECURSIVE ReplicateCandidatesOf(_, _, _, _, _)
ReplicateCandidatesOf(lvl, included, j, excluded, maxExcludedWells) ==
    IF j > Len(included) THEN <<>>
    ELSE (IF included[j].wellId \in excluded \/ Cardinality(excluded) + 1 > maxExcludedWells
          THEN <<>>
          ELSE <<[type |-> "exclude-replicate", level |-> lvl.level,
                  wellId |-> included[j].wellId]>>)
         \o ReplicateCandidatesOf(lvl, included, j + 1, excluded, maxExcludedWells)

\* Candidate: exclude a single replicate (must leave at least 1 replicate in that level).
RECURSIVE ReplicateCandidates(_, _, _, _)
ReplicateCandidates(lv, excluded, dropped, maxExcludedWells) ==
    IF lv = <<>> THEN <<>>
    ELSE LET lvl == Head(lv)
             included == Included(lvl.replicates, excluded)
         IN  (IF lvl.level \in dropped \/ Len(included) <= 1 THEN <<>>
              ELSE ReplicateCandidatesOf(lvl, included, 1, excluded, maxExcludedWells))
             \o ReplicateCandidates(Tail(lv), excluded, dropped, maxExcludedWells)

\* Level drops offered without the cap on their number.
RECURSIVE DropCandidatesUncapped(_, _, _)
DropCandidatesUncapped(lv, dropped, maxDroppedLevels) ==
    IF lv = <<>> THEN <<>>
    ELSE (IF Head(lv).level \in dropped THEN <<>>
          ELSE <<[type |-> "drop-level", level |-> Head(lv).level, wellId |-> <<>>]>>)
         \o DropCandidatesUncapped(Tail(lv), dropped, maxDroppedLevels)

\* Candidate: drop an entire standard level.
RECURSIVE DropCandidates(_, _, _)
DropCandidates(lv, dropped, maxDroppedLevels) ==
    IF lv = <<>> THEN <<>>
    ELSE (IF Head(lv).level \in dropped \/ Cardinality(dropped) + 1 > maxDroppedLevels
          THEN <<>>
          ELSE <<[type |-> "drop-level", level |-> Head(lv).level, wellId |-> <<>>]>>)
         \o DropCandidates(Tail(lv), dropped, maxDroppedLevels)

\* All candidates of one loop iteration, in the order the code tries them.
Candidates(lv, excluded, dropped, op) ==
    ReplicateCandidates(lv, excluded, dropped, op.maxExcludedWells)
        \o DropCandidates(lv, dropped, op.maxDroppedLevels)

NextExcluded(action, excluded) ==
    IF action.type = "exclude-replicate" THEN excluded \cup {action.wellId} ELSE excluded

NextDropped(action, dropped) ==
    IF action.type = "drop-level" THEN dropped \cup {action.level} ELSE dropped

\* A candidate with its simulated fit and score.
Scored(action, nextExcluded, nextDropped, fit2, op) ==
    [ok |-> fit2.ok,
     nextExcluded |-> nextExcluded,
     nextDropped |-> nextDropped,
     fit |-> fit2,
     score |-> calcScore(fit2, Cardinality(nextExcluded), Cardinality(nextDropped),
                         op.replicatePenalty, op.levelPenalty),
     action |-> action]

\* The candidate's fit, on the points its exclusion sets leave.
Simulate(action, lv, nextExcluded, nextDropped, curveKind, op, o) ==
    Scored(action, nextExcluded, nextDropped,
           fitForPoints(buildPoints(lv, nextExcluded, nextDropped), curveKind, o), op)

Evaluate(action, lv, excluded, dropped, curveKind, op, o) ==
    Simulate(action, lv, NextExcluded(action, excluded), NextDropped(action, dropped),
             curveKind, op, o)

NoBest == [ok |-> FALSE, nextExcluded |-> {}, nextDropped |-> {}, fit |-> NoFit,
           score |-> NaN, action |-> NoAction]

\* A candidate replaces the best so far when there is none or it scores strictly higher.
Better(cand, bestSoFar) == cand.ok /\ (~bestSoFar.ok \/ Gt(cand.score, bestSoFar.score))

Keep(cand, bestSoFar) == IF Better(cand, bestSoFar) THEN cand ELSE bestSoFar

RECURSIVE PickBest(_, _, _, _, _, _, _, _, _)
PickBest(cands, i, bestSoFar, lv, excluded, dropped, curveKind, op, o) ==
    IF i > Len(cands) THEN bestSoFar
    ELSE PickBest(cands, i + 1,
                  Keep(Evaluate(cands[i], lv, excluded, dropped, curveKind, op, o), bestSoFar),
                  lv, excluded, dropped, curveKind, op, o)

\* The best candidate of one loop iteration; none when the current fit is null.
BestCandidate(lv, excluded, dropped, curveKind, op, o) ==
    IF ~fitForPoints(buildPoints(lv, excluded, dropped), curveKind, o).ok THEN NoBest
    ELSE PickBest(Candidates(lv, excluded, dropped, op), 1, NoBest,
                  lv, excluded, dropped, curveKind, op, o)

\* The acceptance test without its margin: any valid candidate is taken.
AcceptsAny(bestCand, score, op) == bestCand.ok

\* best.score > curScore + minScoreImprove
Accepts(bestCand, score, op) == bestCand.ok /\ Gt(bestCand.score, Add(score, op.minScoreImprove))

\* A suggestion that leaves the excluded wells out of its list.
SuggestionWithoutWells(excluded, dropped, acts, baseline, suggested) ==
    [excludedWellIds |-> {}, droppedLevels |-> dropped, actions |-> acts,
     baseline |-> baseline, suggested |-> suggested]

\* A suggestion that repeats the baseline as its suggested summary.
SuggestionOfBaseline(excluded, dropped, acts, baseline, suggested) ==
    [excludedWellIds |-> excluded, droppedLevels |-> dropped, actions |-> acts,
     baseline |-> baseline, suggested |-> baseline]

\* The returned AutoQcSuggestion; the two id lists are kept as the sets they are built from.
Suggestion(excluded, dropped, acts, baseline, suggested) ==
    [excludedWellIds |-> excluded, droppedLevels |-> dropped, actions |-> acts,
     baseline |-> baseline, suggested |-> suggested]

EmptySuggestion == Suggestion({}, {}, <<>>, NoFit, NoFit)

(***************************************************************************)
(* One call of suggestStandardCurveExclusions as a state machine:          *)
(*   start --Begin--> loop --EvaluateCandidates--> decide --AcceptStep-->  *)
(*   loop ... --Return--> done                                             *)
(***************************************************************************)
\* The 4PL point lists a set of point lists asks the fitter to fit.
FitRequests(pointLists, curveKind) ==
    IF curveKind.kind # "4pl" THEN {}
    ELSE {c \in {PositivePairs([i \in 1..Len(pts) |-> pts[i].x],
                               [i \in 1..Len(pts) |-> pts[i].y], 1) : pts \in pointLists} :
            Len(c) >= 4}

\* The final SSE values the model lets a Levenberg-Marquardt run end with.
SseChoices == {Zero, One}

\* The tables that extend table o by an outcome for each new request.
Extensions(o, requests) ==
    {o @@ ext : ext \in [requests \ DOMAIN o -> SseChoices]}

CandidatePointLists(lv, excluded, dropped, op) ==
    LET cands == Candidates(lv, excluded, dropped, op)
    IN  {buildPoints(lv, NextExcluded(cands[i], excluded), NextDropped(cands[i], dropped)) :
            i \in 1..Len(cands)}

\* The call entering its loop whatever the baseline fit is.
BeginUnchecked ==
    /\ pc = "start"
    /\ \E lv \in {NormalizeLevels(inputs)} :
       \E o \in Extensions(lmSse, FitRequests({buildPoints(lv, {}, {})}, curve)) :
       \E fit \in {fitForPoints(buildPoints(lv, {}, {}), curve, o)} :
         /\ lmSse' = o
         /\ levels' = lv
         /\ baselineFit' = fit
         /\ curFit' = fit
         /\ curScore' = calcScore(fit, 0, 0, ResolveOptions(opts).replicatePenalty,
                                  ResolveOptions(opts).levelPenalty)
         /\ pc' = "loop"
         /\ UNCHANGED result
    /\ UNCHANGED <<inputs, curve, opts, excludedWellIds, droppedLevels, actions, step, best>>
    /\ UNCHANGED notQcVars

Begin ==
    /\ pc = "start"
    /\ \E lv \in {NormalizeLevels(inputs)} :
       \E o \in Extensions(lmSse, FitRequests({buildPoints(lv, {}, {})}, curve)) :
       \E fit \in {fitForPoints(buildPoints(lv, {}, {}), curve, o)} :
         /\ lmSse' = o
         /\ levels' = lv
         /\ baselineFit' = fit
         /\ IF ~fit.ok
            THEN /\ result' = EmptySuggestion
                 /\ pc' = "done"
                 /\ UNCHANGED <<curFit, curScore>>
            ELSE /\ curFit' = fit
                 /\ curScore' = calcScore(fit, 0, 0, ResolveOptions(opts).replicatePenalty,
                                          ResolveOptions(opts).levelPenalty)
                 /\ pc' = "loop"
                 /\ UNCHANGED result
    /\ UNCHANGED <<inputs, curve, opts, excludedWellIds, droppedLevels, actions, step, best>>
    /\ UNCHANGED notQcVars

\* Lines 190-269 of one iteration: the current fit and the best candidate.
EvaluateCandidates ==
    /\ pc = "loop"
    /\ step < ResolveOptions(opts).maxActions
    /\ LET op == ResolveOptions(opts)
       IN  \E o \in Extensions(lmSse,
                       FitRequests(CandidatePointLists(levels, excludedWellIds, droppedLevels, op),
                                   curve)) :
             /\ lmSse' = o
             /\ best' = BestCandidate(levels, excludedWellIds, droppedLevels, curve, op, o)
    /\ pc' = "decide"
    /\ UNCHANGED <<inputs, curve, opts, levels, excludedWellIds, droppedLevels, actions,
                   baselineFit, curFit, curScore, step, result>>
    /\ UNCHANGED notQcVars

\* Lines 271-281: apply the best step.
AcceptStep ==
    /\ pc = "decide"
    /\ Accepts(best, curScore, ResolveOptions(opts))
    /\ excludedWellIds' = best.nextExcluded
    /\ droppedLevels' = best.nextDropped
    /\ actions' = Append(actions, best.action)
    /\ curFit' = best.fit
    /\ curScore' = best.score
    /\ step' = step + 1
    /\ pc' = "loop"
    /\ UNCHANGED <<inputs, curve, opts, lmSse, levels, baselineFit, best, result>>
    /\ UNCHANGED notQcVars

\* The loop has ended: the step cap is reached, or the iteration broke off.
LoopEnded ==
    \/ pc = "loop" /\ step >= ResolveOptions(opts).maxActions
    \/ pc = "decide" /\ ~Accepts(best, curScore, ResolveOptions(opts))

\* Lines 284-295.
Return ==
    /\ LoopEnded
    /\ result' = Suggestion(excludedWellIds, droppedLevels, actions, baselineFit,
                            fitForPoints(buildPoints(levels, excludedWellIds, droppedLevels),
                                         curve, lmSse))
    /\ pc' = "done"
    /\ UNCHANGED <<inputs, curve, opts, lmSse, levels, excludedWellIds, droppedLevels, actions,
                   baselineFit, curFit, curScore, step, best>>
    /\ UNCHANGED notQcVars

(***************************************************************************)
(* The calls the model makes                                               *)
(***************************************************************************)
MaxLevels == 5
MaxOutliers == 2
Disturbance == 2

Digits == <<"1", "2", "3", "4", "5", "6", "7", "8", "9">>
LevelLabel(i) == <<"S", "t", "d", Digits[i]>>
RowA == << <<"A", "1">>, <<"A", "2">>, <<"A", "3">>, <<"A", "4">>, <<"A", "5">>,
          <<"A", "6">>, <<"A", "7">>, <<"A", "8">>, <<"A", "9">> >>
RowB == << <<"B", "1">>, <<"B", "2">>, <<"B", "3">>, <<"B", "4">>, <<"B", "5">>,
          <<"B", "6">>, <<"B", "7">>, <<"B", "8">>, <<"B", "9">> >>

\* The wells of an n-level standard series whose levels in doubles have two replicates.
SeriesWells(n, doubles) == {RowA[i] : i \in 1..n} \cup {RowB[i] : i \in doubles}

\* Level i sits at concentration i; its clean reading is i (rising) or 1 (flat).  A well
\* in up reads Disturbance higher, a well in down reads Disturbance lower.
SeriesLevel(i, doubles, rising, up, down) ==
    LET clean == IF rising THEN i ELSE 1
        Y(w) == N(clean + (IF w \in up THEN Disturbance ELSE 0)
                        - (IF w \in down THEN Disturbance ELSE 0))
    IN  [level |-> LevelLabel(i),
         conc |-> N(i),
         replicates |-> <<[wellId |-> RowA[i], y |-> Y(RowA[i])]>>
                        \o (IF i \in doubles THEN <<[wellId |-> RowB[i], y |-> Y(RowB[i])]>>
                            ELSE <<>>)]

Series(n, doubles, rising, up, down) ==
    [i \in 1..n |-> SeriesLevel(i, doubles, rising, up, down)]

\* The disturbances of a series: at most MaxOutliers wells read high or (row B only) low.
Disturbances(n, doubles) ==
    {d \in (SUBSET SeriesWells(n, doubles)) \X (SUBSET {RowB[i] : i \in doubles}) :
        d[1] \cap d[2] = {} /\ Cardinality(d[1]) + Cardinality(d[2]) <= MaxOutliers}

\* Levels that normalization must drop, and one it must keep under a trimmed label.
OddLevels ==
    LET rep == <<[wellId |-> <<"H", "1">>, y |-> N(7)]>>
    IN  <<[level |-> <<"J">>, conc |-> Zero, replicates |-> rep],
          [level |-> <<"J">>, conc |-> N(-1), replicates |-> rep],
          [level |-> <<"J">>, conc |-> NaN, replicates |-> rep],
          [level |-> <<"J">>, conc |-> PosInf, replicates |-> rep],
          [level |-> <<"J">>, conc |-> N(6), replicates |-> <<>>],
          [level |-> <<"J">>, conc |-> N(6), replicates |-> <<[wellId |-> <<"H", "1">>, y |-> NaN]>>],
          [level |-> <<" ", " ">>, conc |-> N(6), replicates |-> rep],
          [level |-> <<" ", "J", " ">>, conc |-> N(6), replicates |-> rep]>>

FourPL == [kind |-> "4pl", degree |-> 0]
Poly(degree) == [kind |-> "poly", degree |-> degree]
Curves == {FourPL, Poly(2), Poly(3)}

Options(ma, me, md, rp, lp, mi) ==
    [maxActions |-> ma, maxExcludedWells |-> me, maxDroppedLevels |-> md,
     replicatePenalty |-> rp, levelPenalty |-> lp, minScoreImprove |-> mi]

NoOptions == Options(Undefined, Undefined, Undefined, Undefined, Undefined, Undefined)

OptionProfiles ==
    {NoOptions,
     Options(Given(1), Undefined, Undefined, Undefined, Undefined, Given(Num(1, 2000))),
     Options(Given(2), Undefined, Given(2), Undefined, Undefined, Undefined),
     Options(Undefined, Given(1), Given(0), Given(Zero), Given(Zero), Given(Zero)),
     Options(Given(0), Undefined, Undefined, Undefined, Undefined, Undefined),
     Options(Given(4), Given(0), Given(2), Undefined, Given(Zero), Undefined)}

QcIdle ==
    /\ lmSse = <<>>
    /\ pc = "start"
    /\ levels = <<>>
    /\ excludedWellIds = {}
    /\ droppedLevels = {}
    /\ actions = <<>>
    /\ baselineFit = NoFit
    /\ curFit = NoFit
    /\ curScore = NaN
    /\ step = 0
    /\ best = NoBest
    /\ result = EmptySuggestion

\* No direct call of a fitter.
NoRaw == [given |-> FALSE, x |-> <<>>, y |-> <<>>]
NoCall == [fn |-> "none", degree |-> 0, fit |-> NoFit]
\* No call of fit4pl is followed step by step.
NoRun == [phase |-> "idle"]
FitIdle == raw = NoRaw /\ fitted = NoCall /\ lm = NoRun

\* No reader output is being parsed.
NoText == <<>>
NotParsed == [called |-> FALSE]
ReaderIdle == text = NoText /\ parsed = NotParsed

\* No library function is called on its own.
NoArgs == [fn |-> "none"]
NotReturned == [done |-> FALSE]
LibIdle == args = NoArgs /\ returned = NotReturned

\* useState(true) and useState(0.15)
DefaultBlankSubtract == TRUE
DefaultOutlierThreshold == Num(15, 100)

\* No 4PL fit of curveFit is followed.
NoParams == <<>>
SheetIdle ==
    /\ blankSubtract = DefaultBlankSubtract
    /\ outlierThreshold = DefaultOutlierThreshold
    /\ lmParams = NoParams

\* No AnalysisTab is mounted.
NoLayout == <<>>
TabIdle ==
    /\ wells = NoLayout
    /\ stdConcMap = <<>>
    /\ curveModel = "4pl"
    /\ curveDegree = 2
    /\ useSuggestedStdExclusions = FALSE
    /\ events = 0
    /\ SheetIdle

\* Polynomial fits of a clean or disturbed series, under the default options.
InitSeries ==
    \E n \in (MaxLevels - 1)..MaxLevels, rising \in BOOLEAN, doubles \in {{2}, {2, 3}} :
      \E d \in Disturbances(n, doubles) :
        /\ inputs = Series(n, doubles, rising, d[1], d[2])
        /\ curve \in {Poly(2), Poly(3)}
        /\ opts = NoOptions

\* Every option profile, on series with MaxOutliers wells reading high.
InitOptions ==
    \E d \in {d \in Disturbances(MaxLevels, {2, 3}) : Cardinality(d[1]) = MaxOutliers} :
      /\ inputs = Series(MaxLevels, {2, 3}, TRUE, d[1], d[2])
      /\ curve = Poly(2)
      /\ opts \in OptionProfiles \ {NoOptions}

\* A series with one odd level in front of it.
InitOdd ==
    \E k \in 1..Len(OddLevels), up \in {{}, {<<"B", "2">>}} :
      /\ inputs = <<OddLevels[k]>> \o Series(4, {2}, TRUE, up, {})
      /\ curve \in Curves
      /\ opts = NoOptions

\* 4PL fits: four levels with replicates to exclude, or five levels to drop one of.
InitFourPL ==
    \E shape \in {<<4, {2}>>, <<4, {2, 3}>>, <<5, {}>>}, rising \in BOOLEAN :
      \E d \in {<<{}, {}>>} \cup {<<{<<"A", "2">>}, {<<"B", "2">>}>> : i \in shape[2]} :
        /\ inputs = Series(shape[1], shape[2], rising, d[1], d[2])
        /\ curve = FourPL
        /\ opts \in OptionProfiles

\* Inputs written out: a level is its concentration and its replicates, a replicate its
\* wellId and its reading; level i is labelled Std<i>.
WrittenLevel(i, l) ==
    [level |-> LevelLabel(i),
     conc |-> N(l[1]),
     replicates |-> [k \in 1..Len(l[2]) |-> [wellId |-> l[2][k][1], y |-> N(l[2][k][2])]]]

Written(ls) == [i \in 1..Len(ls) |-> WrittenLevel(i, ls[i])]

\* A wellId given twice in one level, and a wellId given in two levels.
RepeatedInLevel ==
    Written(<< <<1, << <<RowA[1], 1>> >> >>,
               <<2, << <<RowA[2], 2>> >> >>,
               <<3, << <<RowA[3], 5>>, <<RowA[3], 5>> >> >>,
               <<4, << <<RowA[4], 4>> >> >>,
               <<5, << <<RowA[5], 5>> >> >> >>)

RepeatedAcrossLevels ==
    Written(<< <<1, << <<RowA[1], 1>> >> >>,
               <<2, << <<RowA[2], 2>> >> >>,
               <<3, << <<RowA[3], 5>> >> >>,
               <<4, << <<RowA[3], 4>>, <<RowB[4], 4>> >> >>,
               <<5, << <<RowA[5], 5>> >> >> >>)

\* A level with a replicate that reads far off, between two levels that read off.
SpoiledTwice ==
    Written(<< <<1, << <<RowA[1], 1>>, <<RowB[1], 5>> >> >>,
               <<2, << <<RowA[2], 2>> >> >>,
               <<3, << <<RowA[3], 6>> >> >>,
               <<4, << <<RowA[4], 4>> >> >>,
               <<5, << <<RowA[5], 4>> >> >> >>)

\* Three levels at one concentration, and two levels only.
OneConcentration ==
    Written(<< <<2, << <<RowA[1], 1>> >> >>,
               <<2, << <<RowA[2], 2>>, <<RowB[2], 3>> >> >>,
               <<2, << <<RowA[3], 4>> >> >> >>)

TwoLevels ==
    Written(<< <<1, << <<RowA[1], 1>>, <<RowB[1], 3>> >> >>,
               <<2, << <<RowA[2], 2>> >> >> >>)

TwoDrops == Options(Undefined, Undefined, Given(2), Undefined, Undefined, Undefined)

\* The written inputs, under the default options and with two level drops allowed.
InitWritten ==
    /\ inputs \in {RepeatedInLevel, RepeatedAcrossLevels, SpoiledTwice, OneConcentration,
                   TwoLevels}
    /\ curve \in {Poly(2), FourPL}
    /\ opts \in {NoOptions, TwoDrops}

InitQc ==
    QcIdle /\ FitIdle /\ ReaderIdle /\ TabIdle /\ LibIdle
        /\ (InitSeries \/ InitOptions \/ InitOdd \/ InitFourPL \/ InitWritten)

NextQc == Begin \/ EvaluateCandidates \/ AcceptStep \/ Return

SpecQc == InitQc /\ [][NextQc]_vars

\* The call runs synchronously to its end: weak fairness of its steps.  This is
\* WF_vars(NextQc) with ENABLED <<NextQc>>_vars written out as its meaning here, the call
\* not having returned yet: every guard of NextQc is a test of pc, step and best, and
\* Extensions is never empty.
QcFairness == []<>(pc = "done") \/ []<><<NextQc>>_vars

SpecQcFair == SpecQc /\ QcFairness

(***************************************************************************)
(* Direct calls of fitPolynomial and fit4pl on raw arrays                  *)
(***************************************************************************)
MaxPairs == 5
MaxSpoiled == 2
\* The polynomial degrees of the direct calls.
Degrees == 1..3

\* What can be wrong with a pair: x or y not finite, x not positive.
SpoilKinds == {"xNaN", "xInf", "yNaN", "xZero", "xNeg"}

RawXAt(i, kind) ==
    CASE kind = "xNaN" -> NaN
      [] kind = "xInf" -> PosInf
      [] kind = "xZero" -> Zero
      [] kind = "xNeg" -> N(-1)
      [] OTHER -> N(i)

\* The finite pairs lie on the line y = x.
RawYAt(i, kind) ==
    CASE kind = "yNaN" -> NaN
      [] kind = "xZero" -> Zero
      [] kind = "xNeg" -> N(-1)
      [] OTHER -> N(i)

\* n pairs with the kinds spoil gives some of them; y one entry shorter when yShort.
RawArrays(n, spoil, yShort) ==
    [given |-> TRUE,
     x |-> [i \in 1..n |-> RawXAt(i, spoil[i])],
     y |-> [i \in 1..(IF yShort /\ n > 0 THEN n - 1 ELSE n) |-> RawYAt(i, spoil[i])]]

Spoilings(n) ==
    {sp \in [1..n -> SpoilKinds \cup {"none"}] :
        Cardinality({i \in 1..n : sp[i] # "none"}) <= MaxSpoiled}

InitRaw ==
    /\ \E n \in 0..MaxPairs, yShort \in BOOLEAN :
       \E sp \in Spoilings(n) : raw = RawArrays(n, sp, yShort)
    /\ fitted = NoCall
    /\ lm = NoRun
    /\ inputs = <<>>
    /\ curve = FourPL
    /\ opts = NoOptions

qcVarsButLmSse ==
    <<inputs, curve, opts, pc, levels, excludedWellIds, droppedLevels, actions,
      baselineFit, curFit, curScore, step, best, result>>

\* fitPolynomial(raw.x, raw.y, degree)
CallFitPolynomial ==
    /\ raw.given
    /\ fitted.fn = "none"
    /\ lm = NoRun
    /\ \E degree \in Degrees :
         fitted' = [fn |-> "poly", degree |-> degree,
                    fit |-> fitPolynomial(raw.x, raw.y, degree)]
    /\ UNCHANGED <<raw, lm, lmSse, qcVarsButLmSse, readerVars, tabVars, libVars>>

\* fit4pl(raw.x, raw.y)
CallFit4pl ==
    /\ raw.given
    /\ fitted.fn = "none"
    /\ lm = NoRun
    /\ \E o \in Extensions(lmSse, {c \in {PositivePairs(raw.x, raw.y, 1)} : Len(c) >= 4}) :
         /\ lmSse' = o
         /\ fitted' = [fn |-> "4pl", degree |-> 0, fit |-> fit4pl(raw.x, raw.y, o)]
    /\ UNCHANGED <<raw, lm, qcVarsButLmSse, readerVars, tabVars, libVars>>

InitFit ==
    \/ QcIdle /\ ReaderIdle /\ TabIdle /\ LibIdle /\ InitRaw
    \/ QcIdle /\ ReaderIdle /\ TabIdle /\ LibIdle /\ FitIdle /\ (InitOptions \/ InitOdd \/ InitFourPL)

NextFit == NextQc \/ CallFitPolynomial \/ CallFit4pl

SpecFit == InitFit /\ [][NextFit]_vars

(***************************************************************************)
(* Text: a string is the sequence of its characters                        *)
(***************************************************************************)
DigitChars == <<"0", "1", "2", "3", "4", "5", "6", "7", "8", "9">>
LowerChars == <<"a", "b", "c", "d", "e", "f", "g", "h", "i", "j", "k", "l", "m",
                "n", "o", "p", "q", "r", "s", "t", "u", "v", "w", "x", "y", "z">>
UpperChars == <<"A", "B", "C", "D", "E", "F", "G", "H", "I", "J", "K", "L", "M",
                "N", "O", "P", "Q", "R", "S", "T", "U", "V", "W", "X", "Y", "Z">>

\* The position of character c in the alphabet chars, 0 when it is not in it.
IndexIn(c, chars) ==
    IF \E i \in 1..Len(chars) : chars[i] = c
    THEN CHOOSE i \in 1..Len(chars) : chars[i] = c
    ELSE 0

UpperChar(c) == IF IndexIn(c, LowerChars) > 0 THEN UpperChars[IndexIn(c, LowerChars)] ELSE c
LowerChar(c) == IF IndexIn(c, UpperChars) > 0 THEN LowerChars[IndexIn(c, UpperChars)] ELSE c

\* String.prototype.toUpperCase / toLowerCase
toUpperCase(s) == [i \in 1..Len(s) |-> UpperChar(s[i])]
toLowerCase(s) == [i \in 1..Len(s) |-> LowerChar(s[i])]

\* String.prototype.includes
includes(s, part) ==
    \E i \in 0..(Len(s) - Len(part)) : SubSeq(s, i + 1, i + Len(part)) = part

IsDigits(s) == \A i \in 1..Len(s) : IndexIn(s[i], DigitChars) > 0

\* The value of a string of decimal digits.
RECURSIVE DigitsValue(_)
DigitsValue(s) ==
    IF s = <<>> THEN 0
    ELSE 10 * DigitsValue(SubSeq(s, 1, Len(s) - 1)) + (IndexIn(s[Len(s)], DigitChars) - 1)

RECURSIVE Pow10(_)
Pow10(k) == IF k = 0 THEN 1 ELSE 10 * Pow10(k - 1)

\* The decimal digits of n >= 0.
RECURSIVE DigitsOf(_)
DigitsOf(n) ==
    IF n < 10 THEN <<DigitChars[n + 1]>> ELSE Append(DigitsOf(n \div 10), DigitChars[(n % 10) + 1])

\* Number(s) for an unsigned decimal literal: digits, with an optional fraction.
UnsignedDecimal(intPart, fracPart) ==
    IF ~IsDigits(intPart) \/ ~IsDigits(fracPart) THEN NaN
    ELSE Num(DigitsValue(intPart) * Pow10(Len(fracPart)) + DigitsValue(fracPart),
             Pow10(Len(fracPart)))

\* Where the decimal point of s is (0: none).
PointAt(s) == IndexIn(".", s)

UnsignedNumber(s) ==
    IF s = <<>> \/ s = <<".">> THEN NaN
    ELSE IF PointAt(s) = 0 THEN UnsignedDecimal(s, <<>>)
    ELSE UnsignedDecimal(SubSeq(s, 1, PointAt(s) - 1), SubSeq(s, PointAt(s) + 1, Len(s)))

\* Number(s) for a trimmed, non-empty s: a decimal literal with an optional sign; NaN for
\* any other text.  (Exponents, hex literals and "Infinity" are not among the texts used.)
NumberOf(s) ==
    IF s = <<>> THEN Zero
    ELSE IF Head(s) = "-" THEN Neg(UnsignedNumber(Tail(s)))
    ELSE IF Head(s) = "+" THEN UnsignedNumber(Tail(s))
    ELSE UnsignedNumber(s)

(***************************************************************************)
(* parseElisaReaderText                                                    *)
(*                                                                         *)
(* A text is the sequence of its lines (the split at newlines) and a line  *)
(* the sequence of its tab-separated pieces, so a line without a tab is    *)
(* one piece and the empty string is one line of one empty piece.  The     *)
(* characters used never include a comma, a semicolon or a pipe.           *)
(* Positions in a sequence count from 1 here and from 0 in the code; 0     *)
(* stands for the code's -1 (not found).                                   *)
(***************************************************************************)
PLATE96_ROWS == <<"A", "B", "C", "D", "E", "F", "G", "H">>
PLATE96_COLS == <<1, 2, 3, 4, 5, 6, 7, 8, 9, 10, 11, 12>>

\* plate96WellIds[idx], idx counted from 0.
plate96WellId(idx) ==
    <<PLATE96_ROWS[(idx \div Len(PLATE96_COLS)) + 1]>>
        \o DigitsOf(PLATE96_COLS[(idx % Len(PLATE96_COLS)) + 1])

NoWell == <<>>

\* Math.trunc of a finite number.
Trunc(v) == IF v[1] < 0 THEN -((-v[1]) \div v[2]) ELSE v[1] \div v[2]

InPlate(idx) == IF idx < 0 \/ idx >= Len(PLATE96_ROWS) * Len(PLATE96_COLS) THEN NoWell
                ELSE plate96WellId(idx)

indexToWellId96(index) == IF ~isFiniteNumber(index) THEN NoWell ELSE InPlate(Trunc(index))

\* number | null
Null == [ok |-> FALSE, v |-> NaN]
Some(v) == [ok |-> TRUE, v |-> v]

Sentinels ==
    { <<"N", "A">>, <<"N", "A", "N">>, <<"I", "N", "F">>,
      <<"#", "D", "I", "V", "/", "0", "!">>,
      <<"U", "N", "D", "E", "T", "E", "R", "M", "I", "N", "E", "D">> }

FiniteOrNull(n) == IF isFiniteNumber(n) THEN Some(n) ELSE Null

toNumberTrimmed(s) ==
    IF s = <<>> THEN Null
    ELSE IF toUpperCase(s) \in Sentinels THEN Null
    ELSE FiniteOrNull(NumberOf(s))

\* A conversion without the tests for the empty string and the sentinel tokens.
toNumberUnguarded(value) == FiniteOrNull(NumberOf(Trim(value)))

toNumber(value) == toNumberTrimmed(Trim(value))

IsBlank(piece) == Trim(piece) = <<>>
LineIsBlank(line) == \A i \in 1..Len(line) : IsBlank(line[i])

RECURSIVE DropLeadingBlanks(_)
DropLeadingBlanks(line) ==
    IF line # <<>> /\ IsBlank(Head(line)) THEN DropLeadingBlanks(Tail(line)) ELSE line

\* line.trimEnd(): the blank pieces at the end go with the tabs between them.
RECURSIVE trimEnd(_)
trimEnd(line) ==
    IF line # <<>> /\ IsBlank(line[Len(line)]) THEN trimEnd(SubSeq(line, 1, Len(line) - 1))
    ELSE line

RECURSIVE DropLeadingBlankLines(_)
DropLeadingBlankLines(lines) ==
    IF lines # <<>> /\ LineIsBlank(Head(lines)) THEN DropLeadingBlankLines(Tail(lines))
    ELSE lines

RECURSIVE DropTrailingBlankLines(_)
DropTrailingBlankLines(lines) ==
    IF lines # <<>> /\ LineIsBlank(lines[Len(lines)])
    THEN DropTrailingBlankLines(SubSeq(lines, 1, Len(lines) - 1))
    ELSE lines

TrimFirstLine(lines) ==
    IF lines = <<>> THEN lines ELSE <<DropLeadingBlanks(Head(lines))>> \o Tail(lines)

\* text.replace(/\r/g, '').trim(): the whitespace at both ends of the text goes, blank
\* lines and tabs included.  (What is left of the last line's end is cut by trimEnd.)
trimmedText(lines) == TrimFirstLine(DropTrailingBlankLines(DropLeadingBlankLines(lines)))

\* detectSep and detectSeparator: the separator counted most often in the first five
\* lines; tabs are the only ones that occur here.
detectSep(lines) ==
    IF \E i \in 1..Min2(5, Len(lines)) : Len(lines[i]) > 1 THEN "tab" ELSE "whitespace"

\* s.split(/\s+/) of a piece, without the empty strings of its ends.
RECURSIVE Words(_)
WordsOfTrimmed(s) ==
    IF s = <<>> THEN <<>>
    ELSE IF IndexIn(" ", s) = 0 THEN <<s>>
    ELSE <<SubSeq(s, 1, IndexIn(" ", s) - 1)>> \o Words(SubSeq(s, IndexIn(" ", s) + 1, Len(s)))
Words(s) == WordsOfTrimmed(TrimStart(s))

RECURSIVE WordsOfLine(_)
WordsOfLine(line) ==
    IF line = <<>> THEN <<>> ELSE Words(Head(line)) \o WordsOfLine(Tail(line))

\* splitPreserve and splitRow
splitPreserve(line, sep) ==
    IF sep = "tab" THEN [i \in 1..Len(line) |-> Trim(line[i])] ELSE WordsOfLine(line)

NotBlank(line) == ~LineIsBlank(line)

SplitLines(lines, sep) ==
    [i \in 1..Len(lines) |-> splitPreserve(trimEnd(lines[i]), sep)]

\* The rows of the text, as both parsers compute them.
RowsOfTrimmed(lines) == SplitLines(SelectSeq(lines, NotBlank), detectSep(lines))
RowsOf(lines) == RowsOfTrimmed(trimmedText(lines))

\* The first position of seq whose element passes Test, 0 when there is none.
findIndex(seq, Test(_)) ==
    IF \E i \in 1..Len(seq) : Test(seq[i])
    THEN CHOOSE i \in 1..Len(seq) : Test(seq[i]) /\ \A j \in 1..(i - 1) : ~Test(seq[j])
    ELSE 0

TemperatureWord == <<"t", "e", "m", "p", "e", "r", "a", "t", "u", "r", "e">>
IsOne(c) == Trim(c) = <<"1">>

\* r.some((c) => /temperature/i.test(c))
NamesTemperature(r) == \E i \in 1..Len(r) : includes(toLowerCase(r[i]), TemperatureWord)

\* The positions of the cells '1' of a row, in order.
OneIndices(r) == SelectSeq([i \in 1..Len(r) |-> i], LAMBDA i : IsOne(r[i]))

\* r.filter((c) => c.trim() === '1').length >= 2
HasTwoOnes(r) == Len(OneIndices(r)) >= 2

OrElse(headerIdx, fallback) == IF headerIdx > 0 THEN headerIdx ELSE fallback

resolvedHeaderIdx(rows) ==
    OrElse(findIndex(rows, NamesTemperature), findIndex(rows, HasTwoOnes))

\* padded[j] ?? '' for the padded row, j counted from 1.
Cell(row, j) == IF j <= Len(row) THEN row[j] ELSE <<>>

\* Array.from({ length: 12 }, (_, i) => toNumber(padded[start + i] ?? ''))
BlockValues(row, start) ==
    [i \in 1..Len(PLATE96_COLS) |-> toNumber(Cell(row, start + i - 1))]

HasValue(vals) == \E i \in 1..Len(vals) : vals[i].ok

hasAny(row, start450, start570) ==
    HasValue(BlockValues(row, start450)) \/ HasValue(BlockValues(row, start570))

NoMatrices == [matrix450 |-> <<>>, matrix570 |-> <<>>, temperatureC |-> Null]

\* One turn of the loop over the data rows, for a row that has a value.
PushRow(row, start450, start570, m) ==
    [matrix450 |-> Append(m.matrix450, BlockValues(row, start450)),
     matrix570 |-> Append(m.matrix570, BlockValues(row, start570)),
     temperatureC |-> IF m.temperatureC.ok THEN m.temperatureC ELSE toNumber(Cell(row, 1))]

ReadRow(row, start450, start570, m) ==
    IF hasAny(row, start450, start570) THEN PushRow(row, start450, start570, m) ELSE m

\* The loop over the data rows: it ends with the rows or after the eighth row pushed.
RECURSIVE ReadRows(_, _, _, _)
ReadRows(dataRows, start450, start570, m) ==
    IF dataRows = <<>> \/ Len(m.matrix450) >= Len(PLATE96_ROWS) THEN m
    ELSE ReadRows(Tail(dataRows), start450, start570,
                  ReadRow(Head(dataRows), start450, start570, m))

\* ElisaParseResult | null
NoWells == <<>>
Rejected ==
    [ok |-> FALSE, wells |-> NoWells, temperatureC |-> Null, warnings |-> <<>>,
     format |-> "none"]

\* a450 !== null && a570 !== null ? a450 - a570 : null
NetOf(a450, a570) == IF a450.ok /\ a570.ok THEN Some(Sub(a450.v, a570.v)) ELSE Null

Reading(a450, a570) == [a450 |-> a450, a570 |-> a570, net |-> NetOf(a450, a570)]

PlateIndices == 0..(Len(PLATE96_ROWS) * Len(PLATE96_COLS) - 1)

\* The well map of the eight rows read: a function from well ids to readings.
PlateWells(m) ==
    [w \in {plate96WellId(idx) : idx \in PlateIndices} |->
        Reading(m.matrix450[IndexIn(w[1], PLATE96_ROWS)][DigitsValue(Tail(w))],
                m.matrix570[IndexIn(w[1], PLATE96_ROWS)][DigitsValue(Tail(w))])]

PlateResult(m) ==
    IF Len(m.matrix450) < Len(PLATE96_ROWS) \/ Len(m.matrix570) < Len(PLATE96_ROWS)
    THEN Rejected
    ELSE [ok |-> TRUE, wells |-> PlateWells(m), temperatureC |-> m.temperatureC,
          warnings |-> <<>>, format |-> "plateBlocks"]

PlateFromOnes(rows, headerIdx, oneIndices) ==
    IF Len(oneIndices) < 2 THEN Rejected
    ELSE PlateResult(ReadRows(SubSeq(rows, headerIdx + 1, Len(rows)),
                              oneIndices[1], oneIndices[2], NoMatrices))

PlateFromHeader(rows, headerIdx) ==
    IF headerIdx = 0 THEN Rejected
    ELSE PlateFromOnes(rows, headerIdx, OneIndices(rows[headerIdx]))

PlateFromRows(rows) == PlateFromHeader(rows, resolvedHeaderIdx(rows))

tryParsePlateBlocks(str) ==
    IF trimmedText(str) = <<>> THEN Rejected ELSE PlateFromRows(RowsOf(str))

Max2(a, b) == IF a > b THEN a ELSE b

\* rawRows.reduce((max, row) => Math.max(max, row.length), 0)
RECURSIVE MaxLen(_)
MaxLen(rows) == IF rows = <<>> THEN 0 ELSE Max2(Len(Head(rows)), MaxLen(Tail(rows)))

\* [...row, ...blanks] up to maxColumns cells
PadRow(row, maxColumns) == [j \in 1..maxColumns |-> Cell(row, j)]

ColumnWord == <<"C", "o", "l", "u", "m", "n", " ">>

\* h.trim() ? h.trim() : `Column ${idx + 1}`
HeaderName(h, idx) == IF Trim(h) # <<>> THEN Trim(h) ELSE ColumnWord \o DigitsOf(idx)

TableOf(normalized) ==
    [headers |-> [j \in 1..Len(normalized[1]) |-> HeaderName(normalized[1][j], j)],
     rows |-> Tail(normalized)]

Normalized(rawRows, maxColumns) ==
    [i \in 1..Len(rawRows) |-> PadRow(rawRows[i], maxColumns)]

TableOfRows(rawRows) == TableOf(Normalized(rawRows, MaxLen(rawRows)))

NoTable == [headers |-> <<>>, rows |-> <<>>]

\* parseTableText(text, { hasHeader: true }), the headers and the rows of its result
parseTableText(str) ==
    IF trimmedText(str) = <<>> THEN NoTable ELSE TableOfRows(RowsOf(str))

Word450 == <<"4", "5", "0">>
Word570 == <<"5", "7", "0">>
WordWell == <<"w", "e", "l", "l">>
WordPosition == <<"p", "o", "s", "i", "t", "i", "o", "n">>

Names450(c) == includes(c, Word450)
Names570(c) == includes(c, Word570)
NamesWell(c) == includes(c, WordWell) \/ includes(c, WordPosition)

ColumnDigits == {DigitsOf(PLATE96_COLS[i]) : i \in 1..Len(PLATE96_COLS)}

\* /^([A-H])\s*([1-9]|1[0-2])$/i.exec(cell), for the trimmed cell
MatchesWell(cell) ==
    /\ Len(cell) >= 2
    /\ IndexIn(UpperChar(cell[1]), PLATE96_ROWS) > 0
    /\ TrimStart(Tail(cell)) \in ColumnDigits

\* `${match[1].toUpperCase()}${Number(match[2])}`
WellOfMatch(cell) ==
    IF MatchesWell(cell)
    THEN <<UpperChar(cell[1])>> \o DigitsOf(DigitsValue(TrimStart(Tail(cell))))
    ELSE NoWell

\* Number.isFinite(n) && n >= 1 && n <= 96 ? indexToWellId96(n - 1) : null
WellOfIndex(n) ==
    IF isFiniteNumber(n) /\ Ge(n, One) /\ Le(n, N(Len(PLATE96_ROWS) * Len(PLATE96_COLS)))
    THEN indexToWellId96(Sub(n, One))
    ELSE NoWell

\* The well a row of the list names: by its well column, or without one by the number
\* in its first column.
WellOfRow(row, idxWell) ==
    IF idxWell > 0 THEN WellOfMatch(Trim(Cell(row, idxWell)))
    ELSE WellOfIndex(NumberOf(Trim(Cell(row, 1))))

PutWell(ws, wellId, reading) ==
    IF wellId = NoWell THEN ws
    ELSE [w \in (DOMAIN ws) \cup {wellId} |-> IF w = wellId THEN reading ELSE ws[w]]

\* The loop over the rows of the table: a later row of a well replaces an earlier one.
RECURSIVE ListWells(_, _, _, _, _)
ListWells(rows, idx450, idx570, idxWell, ws) ==
    IF rows = <<>> THEN ws
    ELSE ListWells(Tail(rows), idx450, idx570, idxWell,
                   PutWell(ws, WellOfRow(Head(rows), idxWell),
                           Reading(toNumber(Cell(Head(rows), idx450)),
                                   toNumber(Cell(Head(rows), idx570)))))

NoWellMapped == "No well readings could be mapped from the list format."

ListResult(ws) ==
    [ok |-> TRUE, wells |-> ws, temperatureC |-> Null,
     warnings |-> IF DOMAIN ws = {} THEN <<NoWellMapped>> ELSE <<>>,
     format |-> "list"]

ListFromColumns(rows, idx450, idx570, idxWell) ==
    IF idx450 = 0 \/ idx570 = 0 THEN Rejected
    ELSE ListResult(ListWells(rows, idx450, idx570, idxWell, NoWells))

ListFromHeaders(h, rows) ==
    ListFromColumns(rows, findIndex(h, Names450), findIndex(h, Names570),
                    findIndex(h, NamesWell))

ListFromTable(table) ==
    IF Len(table.headers) < 2 THEN Rejected
    ELSE ListFromHeaders([j \in 1..Len(table.headers) |-> toLowerCase(Trim(table.headers[j]))],
                         table.rows)

tryParseList(str) ==
    IF trimmedText(str) = <<>> THEN Rejected ELSE ListFromTable(parseTableText(str))

CouldNotParse ==
    "Could not parse the reader output. Try pasting the 450/570 plate blocks as tab-separated text."

Unparsed ==
    [ok |-> TRUE, wells |-> NoWells, temperatureC |-> Null, warnings |-> <<CouldNotParse>>,
     format |-> "plateBlocks"]

ListOrUnparsed(list) == IF list.ok THEN list ELSE Unparsed

\* The two formats tried in the other order.
BlockOrUnparsed(block) == IF block.ok THEN block ELSE Unparsed
ListOrBlock(list, str) == IF list.ok THEN list ELSE BlockOrUnparsed(tryParsePlateBlocks(str))
parseListFirst(str) == ListOrBlock(tryParseList(str), str)

BlockOrList(block, str) == IF block.ok THEN block ELSE ListOrUnparsed(tryParseList(str))

parseElisaReaderText(str) == BlockOrList(tryParsePlateBlocks(str), str)

(***************************************************************************)
(* Reader outputs given to parseElisaReaderText                            *)
(***************************************************************************)
\* The text of h hundredths, 0 <= h < 1000: "0.07", "0.52", "1.30".
Hundredths(h) ==
    DigitsOf(h \div 100) \o <<".", DigitChars[((h \div 10) % 10) + 1], DigitChars[(h % 10) + 1]>>

\* The absorbance the reader prints for row r, column c of a block.
Text450(r, c) == Hundredths(10 + ((r * 12 + c) % 90))
Text570(r, c) == Hundredths(1 + ((r + c) % 9))

\* What a reader prints for a well without a value.
Missing ==
    << <<"N", "A">>, <<"n", "a", "n">>, <<" ", "I", "n", "f", " ">>,
       <<"#", "D", "I", "V", "/", "0", "!">>,
       <<"U", "n", "d", "e", "t", "e", "r", "m", "i", "n", "e", "d">>,
       <<>>, <<" ">>, <<"O", "V", "E", "R">> >>

MissingAt(r, c) == Missing[((r + c) % Len(Missing)) + 1]

ValueAt(wavelength, r, c) == IF wavelength = 450 THEN Text450(r, c) ELSE Text570(r, c)

\* The twelve cells of one block of data row r.
BlockCells(kind, wavelength, r) ==
    [c \in 1..Len(PLATE96_COLS) |->
        CASE kind = "values" -> ValueAt(wavelength, r, c)
          [] kind = "blank" -> <<>>
          [] kind = "missing" -> MissingAt(r, c)
          [] kind = "mixed" -> IF c % 3 = 0 THEN MissingAt(r, c) ELSE ValueAt(wavelength, r, c)]

TemperatureText == <<"2", "3", ".", "8">>

FirstCell(kind) ==
    CASE kind = "temp" -> TemperatureText
      [] kind = "blank" -> <<>>
      [] kind = "label" -> <<"R", "o", "w">>

RowKind(first, b450, b570) == [first |-> first, b450 |-> b450, b570 |-> b570]

\* A data line: with a Temperature column the first cell and a gap between the blocks,
\* without one the two blocks side by side.
DataLine(layout, k, r) ==
    IF layout = "temp"
    THEN <<FirstCell(k.first)>> \o BlockCells(k.b450, 450, r) \o << <<>> >>
            \o BlockCells(k.b570, 570, r)
    ELSE BlockCells(k.b450, 450, r) \o BlockCells(k.b570, 570, r)

ColumnNumbers == [c \in 1..Len(PLATE96_COLS) |-> DigitsOf(PLATE96_COLS[c])]
TemperatureHeading == <<"T", "e", "m", "p", "e", "r", "a", "t", "u", "r", "e", "(", "C", ")">>
TitleLine == << <<"P", "l", "a", "t", "e", " ", "1">> >>

\* The lines up to and including the header line.
HeaderLines(header) ==
    CASE header = "temp" -> << <<TemperatureHeading>> \o ColumnNumbers \o << <<>> >> \o ColumnNumbers >>
      [] header = "titled" ->
           <<TitleLine, <<TemperatureHeading>> \o ColumnNumbers \o << <<>> >> \o ColumnNumbers>>
      [] header = "oneBlock" -> << <<TemperatureHeading>> \o ColumnNumbers >>
      [] header = "plain" -> << ColumnNumbers \o ColumnNumbers >>
      [] header = "none" -> <<>>

Headers == {"temp", "titled", "oneBlock", "plain", "none"}
LayoutOf(header) == IF header = "plain" THEN "plain" ELSE "temp"

BaseKinds ==
    { RowKind("blank", "values", "values"), RowKind("temp", "values", "values"),
      RowKind("blank", "values", "blank"), RowKind("temp", "blank", "values"),
      RowKind("temp", "mixed", "mixed") }

OtherKinds ==
    { RowKind("blank", "values", "values"), RowKind("temp", "values", "values"),
      RowKind("label", "values", "values"), RowKind("temp", "values", "blank"),
      RowKind("blank", "blank", "values"), RowKind("blank", "missing", "missing"),
      RowKind("temp", "blank", "blank"), RowKind("blank", "blank", "blank"),
      RowKind("blank", "mixed", "missing") }

\* Plate exports have one row short of a plate, a plate, or a row more.
MaxExtraRows == 1
RowCounts == (Len(PLATE96_ROWS) - 1)..(Len(PLATE96_ROWS) + MaxExtraRows)

\* A plate export of n data rows of kind base, the row at position at being of kind other.
PlateText(header, n, base, at, other) ==
    HeaderLines(header)
        \o [r \in 1..n |-> DataLine(LayoutOf(header), IF r = at THEN other ELSE base, r - 1)]

PlateTexts ==
    { PlateText(header, n, base, at, other) :
        header \in Headers, n \in RowCounts, base \in BaseKinds,
        at \in {1, 2, Len(PLATE96_ROWS)}, other \in OtherKinds }
    \cup { PlateText(header, n, base, 0, base) :
             header \in Headers, n \in RowCounts \cup {0}, base \in BaseKinds }

\* Lists of readings: the columns of a line are its well, its 450 and its 570 cell.
ListHeadings ==
    { << <<"W", "e", "l", "l">>, <<"4", "5", "0">>, <<"5", "7", "0">> >>,
      << <<"P", "o", "s", "i", "t", "i", "o", "n">>, <<"O", "D", " ", "4", "5", "0">>,
         <<"O", "D", " ", "5", "7", "0">> >>,
      << <<"I", "n", "d", "e", "x">>, <<"A", "4", "5", "0">>, <<"A", "5", "7", "0">> >>,
      << <<>>, <<"4", "5", "0">>, <<"5", "7", "0">> >>,
      << <<"W", "e", "l", "l">>, <<"4", "5", "0">>, <<"6", "3", "0">> >>,
      << <<"W", "e", "l", "l", " ", "4", "5", "0", " ", "5", "7", "0">> >> }

WellCells ==
    { <<"A", "1">>, <<"h", "1", "2">>, <<"B", " ", "3">>, <<"A", "1", "3">>, <<"I", "1">>,
      <<"A", "0", "1">>, <<"5">>, <<"9", "7">>, <<"2", ".", "5">>, <<>> }

ReadingCells ==
    { << <<"0", ".", "5", "0">>, <<"0", ".", "1", "0">> >>,
      << <<"0", ".", "1", "0">>, <<"0", ".", "5", "0">> >>,
      << <<"N", "A">>, <<"0", ".", "1", "0">> >>,
      << <<"0", ".", "5", "0">>, <<>> >>,
      << <<"#", "D", "I", "V", "/", "0", "!">>, <<"u", "n", "d", "e", "t", "e", "r", "m", "i", "n", "e", "d">> >> }

\* A second line about a well that the first line may have named already.
RepeatLines ==
    { <<w>> \o r : w \in { <<"A", "1">>, <<"a", " ", "1">>, <<"5">> },
                   r \in { << <<"0", ".", "2", "5">>, <<"0", ".", "0", "5">> >>,
                           << <<"I", "N", "F">>, <<"0", ".", "0", "5">> >> } }

\* With a one-piece heading the list is separated by blanks, each line being one piece.
JoinCells(line) == << line[1] \o <<" ">> \o line[2] \o <<" ">> \o line[3] >>
ListLine(heading, line) == IF Len(heading) = 1 THEN JoinCells(line) ELSE line

ListLines ==
    { <<>> } \cup { << <<w>> \o r >> : w \in WellCells, r \in ReadingCells }
    \cup { << <<w>> \o r, again >> : w \in WellCells, r \in ReadingCells, again \in RepeatLines }

ListText(heading, lines) ==
    <<heading>> \o [i \in 1..Len(lines) |-> ListLine(heading, lines[i])]

ListTexts == { ListText(heading, lines) : heading \in ListHeadings, lines \in ListLines }

\* Lists without a leading column: a line is its 450 and its 570 cell.
TwoColumnHeading == <<Word450, Word570>>

TwoColumnLines ==
    { << <<"0", ".", "5", "0">>, <<"0", ".", "1", "0">> >>,
      << <<"1", ".", "3", "0">>, <<"0", ".", "1", "0">> >>,
      << <<"2", ".", "5", "0">>, <<"N", "A">> >> }

TwoColumnTexts ==
    { <<TwoColumnHeading, first>> : first \in TwoColumnLines }
    \cup { <<TwoColumnHeading, first, second>> : first \in TwoColumnLines, second \in TwoColumnLines }

FullRow == RowKind("temp", "values", "values")

\* A list heading on top of a plate export: a text that both formats accept.
HeadedPlateTexts ==
    { <<heading>> \o PlateText(header, Len(PLATE96_ROWS), FullRow, 0, FullRow) :
        heading \in {h \in ListHeadings : Len(h) > 1}, header \in {"temp", "plain"} }

\* The empty string, blanks, and texts without a table.
OtherTexts ==
    { << << <<>> >> >>, << << <<" ">>, <<>> >>, << <<>> >> >>,
      << << <<"a", "b", "c">> >> >>, << TitleLine, << <<>> >>, TitleLine >> }

\* Every text has a line: the split of a string is never empty.
ReaderTexts ==
    (PlateTexts \cup ListTexts \cup TwoColumnTexts \cup HeadedPlateTexts \cup OtherTexts) \ {NoText}

\* const result = parseElisaReaderText(text)
CallParseElisaReaderText ==
    /\ ~parsed.called
    /\ text # NoText
    /\ parsed' = [called |-> TRUE, result |-> parseElisaReaderText(text)]
    /\ UNCHANGED <<text, fitVars, lmSse, qcVarsButLmSse, tabVars, libVars>>

InitReader ==
    /\ QcIdle /\ FitIdle /\ TabIdle /\ LibIdle
    /\ inputs = <<>> /\ curve = FourPL /\ opts = NoOptions
    /\ parsed = NotParsed
    /\ text \in ReaderTexts

NextReader == CallParseElisaReaderText

SpecReader == InitReader /\ [][NextReader]_vars

(***************************************************************************)
(* AnalysisTab: the standards, Auto-QC and the displayed curve fit         *)
(***************************************************************************)
\* plate96WellIds
PlateOrder == [k \in 1..(Len(PLATE96_ROWS) * Len(PLATE96_COLS)) |-> plate96WellId(k - 1)]

\* (w.standardLevel ?? '').trim()
LevelOf(w) == Trim(w.standardLevel)

\* parsed.wells[wellId]?.net ?? null
ReadNet(wellId) ==
    IF wellId \in DOMAIN parsed.result.wells THEN parsed.result.wells[wellId].net ELSE Null

\* values.filter(Number.isFinite).sort((a, b) => a - b): insertion of v into a sorted list
RECURSIVE Insert(_, _)
Insert(v, sorted) ==
    IF sorted = <<>> THEN <<v>>
    ELSE IF Lt(v, Head(sorted)) THEN <<v>> \o sorted
    ELSE <<Head(sorted)>> \o Insert(v, Tail(sorted))

RECURSIVE Sorted(_)
Sorted(values) == IF values = <<>> THEN <<>> ELSE Insert(Head(values), Sorted(Tail(values)))

MedianOfSorted(clean) ==
    IF clean = <<>> THEN Null
    ELSE IF Len(clean) % 2 = 1 THEN Some(clean[(Len(clean) \div 2) + 1])
    ELSE Some(Div(Add(clean[Len(clean) \div 2], clean[(Len(clean) \div 2) + 1]), N(2)))

\* The median of all the entries, finite or not.
medianOfAll(values) == MedianOfSorted(Sorted(values))

median(values) == MedianOfSorted(Sorted(SelectSeq(values, isFiniteNumber)))

IsKeptBlank(ws, wellId) ==
    /\ ws[wellId].type = "Blank" /\ ws[wellId].keep
    /\ ReadNet(wellId).ok /\ isFiniteNumber(ReadNet(wellId).v)

NetsOf(ids) == [k \in 1..Len(ids) |-> ReadNet(ids[k]).v]

blanks(ws) == NetsOf(SelectSeq(PlateOrder, LAMBDA wellId : IsKeptBlank(ws, wellId)))

OrZero(m) == IF m.ok THEN m.v ELSE Zero

\* The median of the blanks whatever the checkbox says.
blankOffsetAlways(subtract, ws) == OrZero(median(blanks(ws)))

\* blankSubtract && blankMedian !== null ? blankMedian : 0
blankOffsetOf(subtract, ws) == IF subtract THEN OrZero(median(blanks(ws))) ELSE Zero

blankOffset(ws) == blankOffsetOf(blankSubtract, ws)

\* The number a label ends its last run of digits with: s.match(/(\d+)(?!.*\d)/).
RECURSIVE DropTrailingNonDigits(_)
DropTrailingNonDigits(s) ==
    IF s # <<>> /\ IndexIn(s[Len(s)], DigitChars) = 0
    THEN DropTrailingNonDigits(SubSeq(s, 1, Len(s) - 1)) ELSE s

RECURSIVE TrailingDigits(_)
TrailingDigits(s) ==
    IF s # <<>> /\ IndexIn(s[Len(s)], DigitChars) > 0
    THEN Append(TrailingDigits(SubSeq(s, 1, Len(s) - 1)), s[Len(s)]) ELSE <<>>

LastNumber(s) == DigitsValue(TrailingDigits(DropTrailingNonDigits(s)))

\* The labels of the Standard wells.  The tab sorts them by the number they end with;
\* the labels of the layouts used all end with a number of their own.
LevelLabels(ws) ==
    {LevelOf(ws[wellId]) : wellId \in {id \in DOMAIN ws : ws[id].type = "Standard"}} \ {<<>>}

RECURSIVE ByNumber(_)
ByNumber(labels) ==
    IF labels = {} THEN <<>>
    ELSE <<CHOOSE l \in labels : \A m \in labels : LastNumber(l) <= LastNumber(m)>>
         \o ByNumber(labels \ {CHOOSE l \in labels : \A m \in labels : LastNumber(l) <= LastNumber(m)})

standardLevels(ws) == ByNumber(LevelLabels(ws))

IsKeptStandard(ws, wellId, lvl, offset) ==
    /\ ws[wellId].type = "Standard" /\ ws[wellId].keep
    /\ LevelOf(ws[wellId]) = lvl
    /\ ReadNet(wellId).ok /\ isFiniteNumber(ReadNet(wellId).v)
    /\ isFiniteNumber(Sub(ReadNet(wellId).v, offset))

ReplicatesOf(ids, offset) ==
    [k \in 1..Len(ids) |-> [wellId |-> ids[k], y |-> Sub(ReadNet(ids[k]).v, offset)]]

\* byLevel.get(lvl) ?? []
Replicates(ws, lvl, offset) ==
    ReplicatesOf(SelectSeq(PlateOrder, LAMBDA wellId : IsKeptStandard(ws, wellId, lvl, offset)),
                 offset)

\* Number.isFinite(concRaw) ? concRaw : null
ConcOf(concMap, lvl) ==
    IF lvl \in DOMAIN concMap /\ isFiniteNumber(concMap[lvl]) THEN Some(concMap[lvl]) ELSE Null

StdLevelsOf(labels, ws, concMap, offset) ==
    [k \in 1..Len(labels) |->
        [level |-> labels[k], conc |-> ConcOf(concMap, labels[k]),
         replicates |-> Replicates(ws, labels[k], offset)]]

stdLevels(ws, concMap) == StdLevelsOf(standardLevels(ws), ws, concMap, blankOffset(ws))

\* The two filters of stdAutoQc.
HasPositiveConc(l) == l.conc.ok /\ isFiniteNumber(l.conc.v) /\ Gt(l.conc.v, Zero)
HasReplicates(l) == Len(l.replicates) > 0

AsInputs(ls) ==
    [k \in 1..Len(ls) |-> [level |-> ls[k].level, conc |-> ls[k].conc.v,
                           replicates |-> ls[k].replicates]]

\* The inputs stdAutoQc hands to suggestStandardCurveExclusions.
AutoQcInputs(ls) == AsInputs(SelectSeq(SelectSeq(ls, HasPositiveConc), HasReplicates))

curveKind(model, degree) == IF model = "4pl" THEN FourPL ELSE Poly(degree)

\* stdAutoQc.actions.length > 0 && stdAutoQc.suggested !== null
hasSuggestedExclusions == Len(result.actions) > 0 /\ result.suggested.ok
canToggleSuggested == hasSuggestedExclusions \/ useSuggestedStdExclusions
\* The suggestion applied whether it was asked for or not.
applySuggestedUnasked == hasSuggestedExclusions

applySuggested == useSuggestedStdExclusions /\ hasSuggestedExclusions

FitPointOf(l, reps) ==
    [level |-> l.level, conc |-> l.conc.v, n |-> Len(reps),
     mean |-> Div(SumSeq([k \in 1..Len(reps) |-> reps[k].y]), N(Len(reps)))]

FitPointIfAny(l, reps) == IF reps = <<>> THEN <<>> ELSE <<FitPointOf(l, reps)>>

RECURSIVE FitPoints(_, _, _)
FitPoints(ls, excluded, dropped) ==
    IF ls = <<>> THEN <<>>
    ELSE (IF ~Head(ls).conc.ok \/ ~isFiniteNumber(Head(ls).conc.v) \/ Head(ls).level \in dropped
          THEN <<>>
          ELSE FitPointIfAny(Head(ls), Included(Head(ls).replicates, excluded)))
         \o FitPoints(Tail(ls), excluded, dropped)

stdFitPoints ==
    FitPoints(stdLevels(wells, stdConcMap),
              IF applySuggested THEN result.excludedWellIds ELSE {},
              IF applySuggested THEN result.droppedLevels ELSE {})

IsUsablePoint(p) == isFiniteNumber(p.conc) /\ isFiniteNumber(p.mean)
IsCleanPoint(p) == Gt(p.conc, Zero)

\* The points curveFit hands to the fitter of the chosen model; none when they are too
\* few for it to call the fitter.
PointsToFit(usable, model, degree) ==
    IF model = "4pl"
    THEN (IF Len(SelectSeq(usable, IsCleanPoint)) < 4 THEN <<>>
          ELSE SelectSeq(usable, IsCleanPoint))
    ELSE (IF Len(usable) < degree + 1 THEN <<>> ELSE usable)

curveFitPoints == PointsToFit(SelectSeq(stdFitPoints, IsUsablePoint), curveModel, curveDegree)

\* A change of stdLevels, curveModel or curveDegree makes the tab compute stdAutoQc
\* anew: a call of suggestStandardCurveExclusions without options.
Recompute(ls, model, degree) ==
    /\ inputs' = AutoQcInputs(ls)
    /\ curve' = curveKind(model, degree)
    /\ opts' = NoOptions
    /\ pc' = "start"
    /\ levels' = <<>>
    /\ excludedWellIds' = {}
    /\ droppedLevels' = {}
    /\ actions' = <<>>
    /\ baselineFit' = NoFit
    /\ curFit' = NoFit
    /\ curScore' = NaN
    /\ step' = 0
    /\ best' = NoBest
    /\ result' = EmptySuggestion
    /\ UNCHANGED lmSse

\* The tab handles an event once it has rendered, stdAutoQc included.
MaxEvents == 2
Rendered == wells # NoLayout /\ pc = "done"
Handles ==
    /\ Rendered
    /\ events < MaxEvents
    /\ events' = events + 1

\* The keep checkbox of a row of the table; the table shows the assigned wells.
toggleKeep ==
    /\ Handles
    /\ \E wellId \in {id \in DOMAIN wells : wells[id].type # "Empty"} :
       \E keep \in {~wells[wellId].keep} :
         /\ wells' = [wells EXCEPT ![wellId].keep = keep]
         /\ Recompute(stdLevels(wells', stdConcMap), curveModel, curveDegree)
    /\ UNCHANGED <<stdConcMap, curveModel, curveDegree, useSuggestedStdExclusions>>
    /\ UNCHANGED <<fitVars, readerVars, libVars, sheetVars>>

\* What the user types into the concentration input of a level: nothing, or -1.
ConcEntries == { <<>>, <<"-", "1">> }

\* onChange of the concentration input: setStdConcMap({ ...stdConcMap, [p.level]: v })
ChangeStdConc ==
    /\ Handles
    /\ \E k \in 1..Len(standardLevels(wells)), entry \in ConcEntries :
         /\ stdConcMap' = [lvl \in (DOMAIN stdConcMap) \cup {standardLevels(wells)[k]} |->
                              IF lvl = standardLevels(wells)[k] THEN NumberOf(entry)
                              ELSE stdConcMap[lvl]]
         /\ stdConcMap' # stdConcMap
         /\ Recompute(stdLevels(wells, stdConcMap'), curveModel, curveDegree)
    /\ UNCHANGED <<wells, curveModel, curveDegree, useSuggestedStdExclusions>>
    /\ UNCHANGED <<fitVars, readerVars, libVars, sheetVars>>

\* onChange of the curve model select
ChangeCurveModel ==
    /\ Handles
    /\ curveModel' = IF curveModel = "4pl" THEN "poly" ELSE "4pl"
    /\ Recompute(stdLevels(wells, stdConcMap), curveModel', curveDegree)
    /\ UNCHANGED <<wells, stdConcMap, curveDegree, useSuggestedStdExclusions>>
    /\ UNCHANGED <<fitVars, readerVars, libVars, sheetVars>>

\* onChange of the degree select, shown for the polynomial model
ChangeCurveDegree ==
    /\ Handles
    /\ curveModel = "poly"
    /\ curveDegree' = IF curveDegree = 2 THEN 3 ELSE 2
    /\ Recompute(stdLevels(wells, stdConcMap), curveModel, curveDegree')
    /\ UNCHANGED <<wells, stdConcMap, curveModel, useSuggestedStdExclusions>>
    /\ UNCHANGED <<fitVars, readerVars, libVars, sheetVars>>

\* What the three Auto-QC controls leave alone: stdAutoQc is not computed anew.
AutoQcFrame ==
    /\ UNCHANGED <<inputs, curve, opts, lmSse, pc, levels, excludedWellIds, droppedLevels,
                   actions, baselineFit, curFit, curScore, step, best, result>>
    /\ UNCHANGED <<wells, stdConcMap, curveModel, curveDegree>>
    /\ UNCHANGED <<fitVars, readerVars, libVars, sheetVars>>

\* A handler that writes the suggestion into the layout: it clears the keep flag of
\* the wells that the suggestion excludes.
ClickApplyAndUnkeep ==
    /\ Handles
    /\ hasSuggestedExclusions
    /\ useSuggestedStdExclusions' = TRUE
    /\ wells' = [wellId \in DOMAIN wells |->
                    IF wellId \in result.excludedWellIds
                    THEN [wells[wellId] EXCEPT !.keep = FALSE] ELSE wells[wellId]]
    /\ UNCHANGED <<inputs, curve, opts, lmSse, pc, levels, excludedWellIds, droppedLevels,
                   actions, baselineFit, curFit, curScore, step, best, result>>
    /\ UNCHANGED <<stdConcMap, curveModel, curveDegree>>
    /\ UNCHANGED <<fitVars, readerVars, libVars, sheetVars>>

\* 'Apply suggestions', disabled without a suggestion
ClickApply ==
    /\ Handles
    /\ hasSuggestedExclusions
    /\ useSuggestedStdExclusions' = TRUE
    /\ AutoQcFrame

\* 'Use all kept standards'
ClickReset ==
    /\ Handles
    /\ useSuggestedStdExclusions' = FALSE
    /\ AutoQcFrame

\* The Auto-QC toggle: its box shows applySuggested, a click asks for the opposite.
ToggleAutoQc ==
    /\ Handles
    /\ canToggleSuggested
    /\ \E checked \in {~applySuggested} :
         useSuggestedStdExclusions' = (checked /\ hasSuggestedExclusions)
    /\ AutoQcFrame

(***************************************************************************)
(* The plates the tab is mounted on                                        *)
(***************************************************************************)
\* A standard series of TabLevels levels in row A, level i at concentration i and reading
\* i, with a second replicate of the levels TabDoubles in row B; a blank in H1.
TabLevels == 4
TabDoubles == {2}
BlankWell == <<"H", "1">>

\* The level of the series that a well holds, 0 for the other wells.
TabLevelAt(wellId) ==
    IF \E i \in 1..TabLevels : wellId = RowA[i] \/ (i \in TabDoubles /\ wellId = RowB[i])
    THEN CHOOSE i \in 1..TabLevels : wellId = RowA[i] \/ (i \in TabDoubles /\ wellId = RowB[i])
    ELSE 0

\* The layout; the labels of row B carry a blank at their end.
TabAssignment(wellId) ==
    IF TabLevelAt(wellId) > 0
    THEN [type |-> "Standard", keep |-> TRUE,
          standardLevel |-> IF wellId[1] = "B" THEN LevelLabel(TabLevelAt(wellId)) \o <<" ">>
                            ELSE LevelLabel(TabLevelAt(wellId))]
    ELSE [type |-> IF wellId = BlankWell THEN "Blank" ELSE "Empty", keep |-> TRUE,
          standardLevel |-> <<>>]

TabLayout == [wellId \in {PlateOrder[k] : k \in 1..Len(PlateOrder)} |-> TabAssignment(wellId)]

\* The reader's list of the plate: the wells in up read Disturbance higher.
TabReadingLine(wellId, up) ==
    <<wellId,
      Hundredths(100 * (TabLevelAt(wellId) + (IF wellId \in up THEN Disturbance ELSE 0)) + 5),
      Hundredths(5)>>

TabText(up) ==
    ListText(<< <<"W", "e", "l", "l">>, <<"4", "5", "0">>, <<"5", "7", "0">> >>,
             [k \in 1..TabLevels |-> TabReadingLine(RowA[k], up)]
                 \o <<TabReadingLine(RowB[2], up), TabReadingLine(BlankWell, up)>>)

TabConcs == [lvl \in {LevelLabel(i) : i \in 1..TabLevels} |-> N(LastNumber(lvl))]

\* The tab after its first render has begun: the reader text parsed, the concentrations
\* 1..TabLevels entered, and stdAutoQc about to be computed.
InitTab ==
    /\ QcIdle /\ FitIdle /\ LibIdle
    /\ \E up \in {{}, {RowB[2]}, {RowA[3]}} :
         /\ text = TabText(up)
         /\ parsed = [called |-> TRUE, result |-> parseElisaReaderText(text)]
    /\ wells = TabLayout
    /\ stdConcMap = TabConcs
    /\ curveModel \in {"4pl", "poly"}
    /\ curveDegree = 2
    /\ useSuggestedStdExclusions = FALSE
    /\ events = 0
    /\ SheetIdle
    /\ inputs = AutoQcInputs(stdLevels(wells, stdConcMap))
    /\ curve = curveKind(curveModel, curveDegree)
    /\ opts = NoOptions

NextTab ==
    \/ NextQc
    \/ toggleKeep \/ ChangeStdConc \/ ChangeCurveModel \/ ChangeCurveDegree
    \/ ClickApply \/ ClickReset \/ ToggleAutoQc

SpecTab == InitTab /\ [][NextTab]_vars

(***************************************************************************)
(* invert4pl (logistic4pl.ts)                                              *)
(*                                                                         *)
(* The code computes 10 ** (C - Math.log10(frac) / B).  Here this is the   *)
(* number 10^C / frac^(1/B), for an integer C and a slope B of 1, 2 or 1/2 *)
(* (with B = 2 the ratio is the square of a rational number).              *)
(***************************************************************************)
\* Math.min / Math.max of two finite numbers
MinNum(a, b) == IF Lt(b, a) THEN b ELSE a
MaxNum(a, b) == IF Lt(a, b) THEN b ELSE a

\* 10 ** k for an integer k
TenToThe(k) == IF k >= 0 THEN N(Pow10(k)) ELSE Inv(N(Pow10(-k)))

IntSqrt(n) == CHOOSE k \in 0..n : k * k = n
SqrtNum(q) == Num(IntSqrt(q[1]), IntSqrt(q[2]))

\* frac ** (1 / B)
RootOf(frac, B) ==
    CASE B = One -> frac
      [] B = N(2) -> SqrtNum(frac)
      [] B = Num(1, 2) -> Mul(frac, frac)

\* const xLog10 = C - Math.log10(frac) / B; const conc = 10 ** xLog10
ConcOfFrac(C, frac, B) == Div(TenToThe(C[1]), RootOf(frac, B))

\* The concentration whatever the range.
InRangeUnchecked(conc, minConc, maxConc) == IF ~isFiniteNumber(conc) THEN Null ELSE Some(conc)

\* if (!Number.isFinite(conc)) return null
\* if (conc < minConc || conc > maxConc) return null
InRange(conc, minConc, maxConc) ==
    IF ~isFiniteNumber(conc) THEN Null
    ELSE IF Lt(conc, minConc) \/ Gt(conc, maxConc) THEN Null
    ELSE Some(conc)

\* if (!(frac > 0)) return null
FromFrac(params, frac, minConc, maxConc) ==
    IF ~Gt(frac, Zero) THEN Null
    ELSE InRange(ConcOfFrac(params.C, frac, params.B), minConc, maxConc)

\* const denom = y - A; if (Math.abs(denom) < 1e-12) return null
\* const frac = (D - A) / denom - 1
FromDenom(params, denom, minConc, maxConc) ==
    IF BelowEps(AbsNum(denom)) THEN Null
    ELSE FromFrac(params, Sub(Div(Sub(params.D, params.A), denom), One), minConc, maxConc)

FiniteParams(params) ==
    /\ isFiniteNumber(params.A) /\ isFiniteNumber(params.D)
    /\ isFiniteNumber(params.C) /\ isFiniteNumber(params.B)

invert4pl(params, y, minConc, maxConc) ==
    IF ~isFiniteNumber(y) THEN Null
    ELSE IF ~FiniteParams(params) \/ Le(params.B, Zero) THEN Null
    ELSE IF ~isFiniteNumber(minConc) \/ ~isFiniteNumber(maxConc) \/ Le(maxConc, minConc) THEN Null
    ELSE IF Le(y, MinNum(params.A, params.D)) \/ Ge(y, MaxNum(params.A, params.D)) THEN Null
    ELSE FromDenom(params, Sub(y, params.A), minConc, maxConc)

\* The curves inverted: rising and falling between 0 and 2, flat, and with a parameter
\* that is not a number.
FourPLParams(A, D, C, B) == [A |-> A, D |-> D, C |-> C, B |-> B]

Asymptotes == { <<Zero, N(2)>>, <<N(2), Zero>>, <<One, One>>, <<NaN, N(2)>>, <<Zero, PosInf>> }
Midpoints == { N(-1), One, NaN }
Slopes == { One, N(2), Num(1, 2), Zero, N(-1), NaN }

\* Targets below, at, between and above the asymptotes 0 and 2.
Targets ==
    { N(-1), Zero, Num(1, 5), Num(2, 5), One, Num(8, 5), N(2), N(3), NaN, PosInf }

ConcRanges ==
    { <<Num(1, 10), N(100)>>, <<One, One>>, <<N(5), One>>, <<NaN, One>>, <<Zero, PosInf>>,
      <<N(2), N(3)>>, <<One, N(10)>>, <<N(-1), Num(1, 100)>> }

Invert4plCalls ==
    { [fn |-> "invert4pl", params |-> FourPLParams(ad[1], ad[2], c, b), y |-> y,
       minConc |-> r[1], maxConc |-> r[2]] :
        ad \in Asymptotes, c \in Midpoints, b \in Slopes, y \in Targets, r \in ConcRanges }

libFrame == <<args, lmSse, qcVarsButLmSse, fitVars, readerVars, tabVars>>

\* const conc = invert4pl(params, y, minConc, maxConc)
CallInvert4pl ==
    /\ args.fn = "invert4pl"
    /\ ~returned.done
    /\ returned' = [done |-> TRUE,
                    value |-> invert4pl(args.params, args.y, args.minConc, args.maxConc)]
    /\ UNCHANGED libFrame

(***************************************************************************)
(* invertPolyBySearch (polynomial.ts)                                      *)
(*                                                                         *)
(* The search adds and multiplies floating-point numbers, and what it      *)
(* returns depends on how the sums round.  A number of the code is an IEEE *)
(* 754 double: a significand of 53 bits, rounded to nearest, ties to even. *)
(* Here a number has a significand of Precision bits and is a multiple of  *)
(* 2^-MaxScale, with the same rounding after every operation.              *)
(***************************************************************************)
Precision == 4
MaxScale == 8

RECURSIVE Pow2(_)
Pow2(k) == IF k = 0 THEN 1 ELSE 2 * Pow2(k - 1)

\* The integer nearest to fl + r2/(2d), ties to even.
NearestEven(fl, r2, d) == IF r2 > d \/ (r2 = d /\ fl % 2 = 1) THEN fl + 1 ELSE fl
RoundHalfEven(n, d) == NearestEven(n \div d, 2 * (n % d), d)

\* n/d rounded to a significand of Precision bits, for n, d > 0.
RECURSIVE RoundSignificand(_, _)
RoundSignificand(n, d) ==
    IF n \div d < Pow2(Precision) THEN RoundHalfEven(n, d) ELSE 2 * RoundSignificand(n, 2 * d)

\* The floating-point number nearest to v.
Fl(v) ==
    IF ~isFiniteNumber(v) \/ v[1] = 0 THEN v
    ELSE Num(Sign(v) * RoundSignificand(Abs(v[1]) * Pow2(MaxScale), v[2]), Pow2(MaxScale))

FlAdd(a, b) == Fl(Add(a, b))
FlSub(a, b) == Fl(Sub(a, b))
FlMul(a, b) == Fl(Mul(a, b))
FlDiv(a, b) == Fl(Div(a, b))

\* evalPoly(coeff, x) in floating point: y = y * x + coeff[i], from the highest power
RECURSIVE FlHorner(_, _, _, _)
FlHorner(coeff, x, i, y) ==
    IF i = 0 THEN y ELSE FlHorner(coeff, x, i - 1, FlAdd(FlMul(y, x), coeff[i]))

FlEvalPoly(coeff, x) == FlHorner(coeff, x, Len(coeff), Zero)

\* const clamp = (v) => Math.min(maxX, Math.max(minX, v))
clamp(v, minX, maxX) == MinNum(maxX, MaxNum(minX, v))

FlSquare(e) == FlMul(e, e)

\* const err = (x) => { const yHat = evalPoly(coeff, x); const e = yHat - y; return e * e }
err(coeff, y, x) == FlSquare(FlSub(FlEvalPoly(coeff, x), y))

\* if (e0 < bestErr) { bestErr = e0; bestX = x0 }
Improve(bestOf, x0, e0) ==
    IF Lt(e0, bestOf.bestErr) THEN [bestOf EXCEPT !.bestX = x0, !.bestErr = e0] ELSE bestOf

\* One more call of err, which calls evalPoly once.
Evaluated(bestOf) == [bestOf EXCEPT !.evals = @ + 1]

Try(coeff, y, bestOf, x0) == Evaluated(Improve(bestOf, x0, err(coeff, y, x0)))

steps == 600
RefineIterations == 28
RefineDivisor == 20

\* const x0 = minX + (i / steps) * (maxX - minX)
ScanPoint(i, minX, maxX) == FlAdd(minX, FlMul(FlDiv(N(i), N(steps)), FlSub(maxX, minX)))

\* Coarse scan: for (let i = from; i <= to; i += 1), the first half of the points and
\* then the second half, which is the order of the loop.
RECURSIVE ScanFromTo(_, _, _, _, _, _, _)
ScanFromTo(coeff, y, minX, maxX, from, to, bestOf) ==
    IF bestOf.bestX # bestOf.bestX THEN bestOf   \* bestOf is computed first
    ELSE IF from = to THEN Try(coeff, y, bestOf, ScanPoint(from, minX, maxX))
    ELSE ScanFromTo(coeff, y, minX, maxX, ((from + to) \div 2) + 1, to,
                    ScanFromTo(coeff, y, minX, maxX, from, (from + to) \div 2, bestOf))

\* A scan that takes the point i = 0 as well.
CoarseScanFromZero(coeff, y, minX, maxX, bestOf) ==
    ScanFromTo(coeff, y, minX, maxX, 0, steps, bestOf)

\* for (let i = 1; i <= steps; i += 1)
CoarseScan(coeff, y, minX, maxX, bestOf) == ScanFromTo(coeff, y, minX, maxX, 1, steps, bestOf)

\* const a = clamp(bestX - step); const b = clamp(bestX + step): both from the bestX
\* the iteration starts with.
TryBoth(coeff, y, bestOf, a, b) == Try(coeff, y, Try(coeff, y, bestOf, a), b)

\* Local refine: for (let iter = 0; iter < 28; iter += 1) { ...; step *= 0.5 }
RECURSIVE LocalRefine(_, _, _, _, _, _, _)
LocalRefine(coeff, y, minX, maxX, iter, step0, bestOf) ==
    IF iter >= RefineIterations \/ bestOf.bestX # bestOf.bestX \/ step0 # step0 THEN bestOf
    ELSE LocalRefine(coeff, y, minX, maxX, iter + 1, FlMul(step0, Num(1, 2)),
                     TryBoth(coeff, y, bestOf,
                             clamp(FlSub(bestOf.bestX, step0), minX, maxX),
                             clamp(FlAdd(bestOf.bestX, step0), minX, maxX)))

\* let bestX = minX; let bestErr = err(minX)
ScanStart(coeff, y, minX) == [bestX |-> minX, bestErr |-> err(coeff, y, minX), evals |-> 1]

Search(coeff, y, minX, maxX) ==
    LocalRefine(coeff, y, minX, maxX, 0, FlDiv(FlSub(maxX, minX), N(RefineDivisor)),
                CoarseScan(coeff, y, minX, maxX, ScanStart(coeff, y, minX)))

invertPolyBySearch(coeff, y, minX, maxX) ==
    IF ~isFiniteNumber(y) \/ ~isFiniteNumber(minX) \/ ~isFiniteNumber(maxX) THEN Null
    ELSE IF Le(maxX, minX) THEN Null
    ELSE Some(Search(coeff, y, minX, maxX).bestX)

\* The polynomials inverted, coefficients from the constant up: none, x, 2 - x/2,
\* x^2/4, and one with a coefficient that is not a number.
Polynomials ==
    { <<>>, <<Zero, One>>, <<N(2), Num(-1, 2)>>, <<Zero, Zero, Num(1, 4)>>, <<Zero, NaN>> }

\* Targets below, in and above what the polynomials take on the ranges.
PolyTargets == { N(-1), Num(5, 2), N(8), NaN, PosInf }

SearchRanges ==
    { <<One, N(4)>>, <<Num(3, 4), Num(11, 2)>>, <<N(-2), N(2)>>,
      <<One, One>>, <<N(5), One>>, <<NaN, One>>, <<Zero, PosInf>> }

InvertPolyCalls ==
    { [fn |-> "invertPolyBySearch", coeff |-> c, y |-> y, minX |-> r[1], maxX |-> r[2]] :
        c \in Polynomials, y \in PolyTargets, r \in SearchRanges }

\* const conc = invertPolyBySearch(coeff, y, minX, maxX)
CallInvertPolyBySearch ==
    /\ args.fn = "invertPolyBySearch"
    /\ ~returned.done
    /\ returned' = [done |-> TRUE,
                    value |-> invertPolyBySearch(args.coeff, args.y, args.minX, args.maxX)]
    /\ UNCHANGED libFrame

LibIdleButArgs ==
    /\ QcIdle /\ FitIdle /\ ReaderIdle /\ TabIdle
    /\ inputs = <<>> /\ curve = FourPL /\ opts = NoOptions
    /\ returned = NotReturned

InitSearch == LibIdleButArgs /\ args \in InvertPolyCalls

NextSearch == CallInvertPolyBySearch

SpecSearch == InitSearch /\ [][NextSearch]_vars

(***************************************************************************)
(* median (stats.ts) and the plate helpers (plate96.ts) called on their    *)
(* own                                                                     *)
(***************************************************************************)
\* The arrays handed to median: up to MaxValues entries, finite or not.
MaxValues == 4
EntryChoices == { N(-1), Num(1, 2), N(2), NaN, PosInf }
MedianCalls ==
    { [fn |-> "median", values |-> vs] :
        vs \in UNION { [1..n -> EntryChoices] : n \in 0..MaxValues } }

\* values.filter(...) is a new array and the sort reorders that one: the array passed
\* in is left as it is.
CallMedian ==
    /\ args.fn = "median"
    /\ ~returned.done
    /\ returned' = [done |-> TRUE, value |-> median(args.values)]
    /\ args' = args
    /\ UNCHANGED <<lmSse, qcVarsButLmSse, fitVars, readerVars, tabVars>>

\* toWellIndex96 for ids in upper case only.
toWellIndex96CaseSensitive(wellId) ==
    IF MatchesWell(Trim(wellId)) /\ IndexIn(Trim(wellId)[1], PLATE96_ROWS) > 0
    THEN Some(N((IndexIn(Trim(wellId)[1], PLATE96_ROWS) - 1) * Len(PLATE96_COLS)
                + (DigitsValue(TrimStart(Tail(Trim(wellId)))) - 1)))
    ELSE Null

\* rowIdx * 12 + colIdx, of the match of the trimmed id
WellIndexOf(trimmed) ==
    N((IndexIn(UpperChar(trimmed[1]), PLATE96_ROWS) - 1) * Len(PLATE96_COLS)
      + (DigitsValue(TrimStart(Tail(trimmed))) - 1))

\* /^([A-H])\s*([1-9]|1[0-2])$/i.exec(wellId.trim()), the pattern of the list parser
toWellIndex96(wellId) ==
    IF MatchesWell(Trim(wellId)) THEN Some(WellIndexOf(Trim(wellId))) ELSE Null

\* plate96WellIds.slice(start, end + 1)
SliceOfWells(a, b) == SubSeq(PlateOrder, Min2(a, b) + 1, Max2(a, b) + 1)

RangeBetween(a, b) == IF ~a.ok \/ ~b.ok THEN <<>> ELSE SliceOfWells(a.v[1], b.v[1])

wellRange96(from, to) == RangeBetween(toWellIndex96(from), toWellIndex96(to))

\* The ids handed to toWellIndex96: the 96 well ids, and every string of up to
\* MaxIdLength of the characters below.
MaxIdLength == 4
IdChars == { "A", "h", "I", "1", "2", "0", "3", " " }
WellIds96 == { PlateOrder[k] : k \in 1..Len(PlateOrder) }
IdChoices == WellIds96 \cup UNION { [1..n -> IdChars] : n \in 0..MaxIdLength }

ToWellIndexCalls == { [fn |-> "toWellIndex96", wellId |-> s] : s \in IdChoices }

\* The indices handed to indexToWellId96: the integers from -2 to 97, halves, and what
\* is not a finite number.
IndexChoices ==
    { N(i) : i \in -2..(Len(PlateOrder) + 1) }
    \cup { Num(3, 2), Num(-1, 2), Num(-3, 2), Num(191, 2), Num(193, 2), NaN, PosInf, NegInf }

IndexToWellIdCalls == { [fn |-> "indexToWellId96", index |-> i] : i \in IndexChoices }

\* The ends handed to wellRange96: the 96 well ids, a lower-case id and two strings that
\* name no well.
EndChoices == WellIds96 \cup { <<"b", "2">>, <<"I", "1">>, <<>> }

WellRangeCalls ==
    { [fn |-> "wellRange96", from |-> a, to |-> b] : a \in EndChoices, b \in EndChoices }

\* const idx = toWellIndex96(wellId)
CallToWellIndex96 ==
    /\ args.fn = "toWellIndex96"
    /\ ~returned.done
    /\ returned' = [done |-> TRUE, value |-> toWellIndex96(args.wellId)]
    /\ UNCHANGED libFrame

\* indexToWellId96(idx)
CallIndexToWellId96 ==
    /\ args.fn = "indexToWellId96"
    /\ ~returned.done
    /\ returned' = [done |-> TRUE, value |-> indexToWellId96(args.index)]
    /\ UNCHANGED libFrame

\* wellRange96(from, to)
CallWellRange96 ==
    /\ args.fn = "wellRange96"
    /\ ~returned.done
    /\ returned' = [done |-> TRUE, value |-> wellRange96(args.from, args.to)]
    /\ UNCHANGED libFrame

LibCalls ==
    Invert4plCalls \cup MedianCalls \cup ToWellIndexCalls \cup IndexToWellIdCalls
        \cup WellRangeCalls

InitLib == LibIdleButArgs /\ args \in LibCalls

NextLib ==
    \/ CallInvert4pl
    \/ CallMedian
    \/ CallToWellIndex96 \/ CallIndexToWellId96 \/ CallWellRange96

SpecLib == InitLib /\ [][NextLib]_vars

(***************************************************************************)
(* AnalysisTab: the table rows, the curve fit and the sample quantification *)
(***************************************************************************)
\* CurveFit | null
NoCurveFit == [ok |-> FALSE]

PolyCurveFit(fit) ==
    IF fit.ok THEN [ok |-> TRUE, kind |-> "poly", coeff |-> fit.coeff] ELSE NoCurveFit

\* curveFit of the points handed to the fitter, none when they are too few.  The 4PL
\* fitter returns a fit for four clean points or more; its parameters are params.
curveFitOf(points, model, degree, params) ==
    IF points = <<>> THEN NoCurveFit
    ELSE IF model = "4pl" THEN [ok |-> TRUE, kind |-> "4pl", params |-> params]
    ELSE PolyCurveFit(fitPolynomial([k \in 1..Len(points) |-> points[k].conc],
                                    [k \in 1..Len(points) |-> points[k].mean], degree))

curveFit == curveFitOf(curveFitPoints, curveModel, curveDegree, lmParams)

IsPositive(v) == isFiniteNumber(v) /\ Gt(v, Zero)

\* stdFitPoints.map((p) => p.conc).filter((v) => Number.isFinite(v) && v > 0)
xValsOf(points) == SelectSeq([k \in 1..Len(points) |-> points[k].conc], IsPositive)

\* Math.min(...xVals) and Math.max(...xVals) of finite numbers, one at least
RECURSIVE MinOf(_)
MinOf(xs) == IF Len(xs) = 1 THEN xs[1] ELSE MinNum(xs[1], MinOf(Tail(xs)))

RECURSIVE MaxOf(_)
MaxOf(xs) == IF Len(xs) = 1 THEN xs[1] ELSE MaxNum(xs[1], MaxOf(Tail(xs)))

\* w.type === 'Sample' && w.keep, and a finite net reading
IsQuantified(ws, wellId) ==
    /\ ws[wellId].type = "Sample" /\ ws[wellId].keep
    /\ ReadNet(wellId).ok /\ isFiniteNumber(ReadNet(wellId).v)

\* curveFit.kind === 'poly' ? invertPolyBySearch(...) : invert4pl(...)
ConcFrom(fit, netBlank, minX, maxX) ==
    IF fit.kind = "poly" THEN invertPolyBySearch(fit.coeff, netBlank, minX, maxX)
    ELSE invert4pl(fit.params, netBlank, minX, maxX)

\* The factor of the well whatever its value: w.dilutionFactor ?? 1.
dilutionUnchecked(w) == IF w.dilutionFactor.ok THEN w.dilutionFactor.v ELSE One

\* w.dilutionFactor && Number.isFinite(w.dilutionFactor) && w.dilutionFactor > 0
\*     ? w.dilutionFactor : 1
dilutionOf(w) ==
    IF w.dilutionFactor.ok /\ IsPositive(w.dilutionFactor.v) THEN w.dilutionFactor.v ELSE One

\* conc === null ? null : conc * dilution
Adjusted(conc, dilution) == IF conc.ok THEN Some(Mul(conc.v, dilution)) ELSE Null

QuantRowOf(w, wellId, netBlank, conc) ==
    [wellId |-> wellId, animalId |-> w.animalId, group |-> w.group,
     dilutionFactor |-> dilutionOf(w), netBlank |-> netBlank, conc |-> conc,
     concAdjusted |-> Adjusted(conc, dilutionOf(w))]

QuantRow(ws, wellId, fit, offset, minX, maxX) ==
    QuantRowOf(ws[wellId], wellId, Sub(ReadNet(wellId).v, offset),
               ConcFrom(fit, Sub(ReadNet(wellId).v, offset), minX, maxX))

QuantRows(ids, ws, fit, offset, minX, maxX) ==
    [k \in 1..Len(ids) |-> QuantRow(ws, ids[k], fit, offset, minX, maxX)]

QuantifiedWells(ws) == SelectSeq(PlateOrder, LAMBDA wellId : IsQuantified(ws, wellId))

\* if (!curveFit) return []; if (!xVals.length) return []
sampleQuantOf(ws, fit, xVals, offset) ==
    IF ~fit.ok THEN <<>>
    ELSE IF xVals = <<>> THEN <<>>
    ELSE QuantRows(QuantifiedWells(ws), ws, fit, offset, MinOf(xVals), MaxOf(xVals))

sampleQuant == sampleQuantOf(wells, curveFit, xValsOf(stdFitPoints), blankOffset(wells))

\* plate96WellIdsColumnMajor, the order of the table when the tab is mounted
ColumnMajorOrder ==
    [k \in 1..(Len(PLATE96_ROWS) * Len(PLATE96_COLS)) |->
        plate96WellId(((k - 1) % Len(PLATE96_ROWS)) * Len(PLATE96_COLS)
                      + ((k - 1) \div Len(PLATE96_ROWS)))]

\* w.type === 'Sample' ? w.dilutionFactor ?? 1 : null
RowDilution(w) ==
    IF w.type # "Sample" THEN Null
    ELSE IF w.dilutionFactor.ok THEN w.dilutionFactor ELSE Some(One)

\* w.type === 'Sample' ? w.group ?? '' : w.type === 'Standard' ? w.standardLevel ?? '' : ''
RowGroup(w) ==
    IF w.type = "Sample" THEN w.group ELSE IF w.type = "Standard" THEN w.standardLevel ELSE <<>>

\* The key of the replicate group of a row.
GroupKey(w) ==
    CASE w.type = "Blank" -> <<"BLANK">>
      [] w.type = "Sample" -> <<"SAMPLE", w.animalId, RowDilution(w).v>>
      [] w.type = "Standard" -> <<"STD", RowGroup(w)>>
      [] OTHER -> <<"other">>

\* The rows that enter a group: kept, with a finite net - blankOffset.
HasValue96(ws, wellId, offset) ==
    /\ ws[wellId].keep
    /\ ReadNet(wellId).ok
    /\ isFiniteNumber(Sub(ReadNet(wellId).v, offset))

SameGroup(ws, wellId, key, offset) == HasValue96(ws, wellId, offset) /\ GroupKey(ws[wellId]) = key

\* groupMap.get(key)
GroupEntries(ws, key, offset) ==
    SelectSeq(ColumnMajorOrder, LAMBDA wellId : SameGroup(ws, wellId, key, offset))

EntryValues(ids, offset) == [k \in 1..Len(ids) |-> Sub(ReadNet(ids[k]).v, offset)]

\* Math.abs(e.value - m)
DeltaFrom(value, m) == IF m.ok THEN Some(AbsNum(Sub(value, m.v))) ELSE Null

\* if (entries.length < 2) continue
DeltaIn(entries, value, offset) ==
    IF Len(entries) < 2 THEN Null ELSE DeltaFrom(value, median(EntryValues(entries, offset)))

\* items[e.idx].delta, null for the rows outside every group
RowDelta(ws, wellId, offset) ==
    IF ~HasValue96(ws, wellId, offset) THEN Null
    ELSE DeltaIn(GroupEntries(ws, GroupKey(ws[wellId]), offset),
                 Sub(ReadNet(wellId).v, offset), offset)

\* items[e.idx].outlier = delta > outlierThreshold
IsOutlier(delta, threshold) == delta.ok /\ Gt(delta.v, threshold)

\* A row of the table, the absorbances it shows left out.
RowFrom(w, wellId, delta, threshold) ==
    [wellId |-> wellId, type |-> w.type,
     animalId |-> IF w.type = "Sample" THEN w.animalId ELSE <<>>,
     group |-> RowGroup(w), dilutionFactor |-> RowDilution(w), net |-> ReadNet(wellId),
     keep |-> w.keep, outlier |-> IsOutlier(delta, threshold), delta |-> delta]

rowsOf(ws, offset, threshold) ==
    [k \in 1..Len(ColumnMajorOrder) |->
        RowFrom(ws[ColumnMajorOrder[k]], ColumnMajorOrder[k],
                RowDelta(ws, ColumnMajorOrder[k], offset), threshold)]

\* rows (a name that the parsers of the reader text use for their tables)
tableRows == rowsOf(wells, blankOffset(wells), outlierThreshold)

\* onChange of the 'Blank subtract' checkbox (disabled={blanks.length === 0}):
\* setBlankSubtract(e.target.checked)
ChangeBlankSubtract ==
    /\ Handles
    /\ Len(blanks(wells)) > 0
    /\ blankSubtract' = ~blankSubtract
    /\ Recompute(StdLevelsOf(standardLevels(wells), wells, stdConcMap,
                             blankOffsetOf(blankSubtract', wells)),
                 curveModel, curveDegree)
    /\ UNCHANGED <<wells, stdConcMap, curveModel, curveDegree, useSuggestedStdExclusions>>
    /\ UNCHANGED <<outlierThreshold, lmParams, fitVars, readerVars, libVars>>

\* What the user types into the threshold input: nothing, or 0.30.
ThresholdEntries == { <<>>, <<"0", ".", "3", "0">> }

\* e.target.value || '0'
OrZeroText(entry) == IF entry = <<>> THEN <<"0">> ELSE entry

\* onChange of the threshold input: setOutlierThreshold(Number(e.target.value || '0'))
ChangeOutlierThreshold ==
    /\ Handles
    /\ \E entry \in ThresholdEntries :
         /\ outlierThreshold' = NumberOf(OrZeroText(entry))
         /\ outlierThreshold' # outlierThreshold
    /\ UNCHANGED <<inputs, curve, opts, lmSse, pc, levels, excludedWellIds, droppedLevels,
                   actions, baselineFit, curFit, curScore, step, best, result>>
    /\ UNCHANGED <<wells, stdConcMap, curveModel, curveDegree, useSuggestedStdExclusions>>
    /\ UNCHANGED <<blankSubtract, lmParams, fitVars, readerVars, libVars>>

(***************************************************************************)
(* The plates with samples the tab is mounted on                           *)
(***************************************************************************)
\* Two replicates of animal m1 in C1 and C2, at dilution 2; animal m2 in C3 and in D1,
\* which the reader could not read; a second blank in H2; the empty wells E1 and E2 read.
WellC1 == <<"C", "1">>
WellC2 == <<"C", "2">>
WellC3 == <<"C", "3">>
WellD1 == <<"D", "1">>
WellE1 == <<"E", "1">>
WellE2 == <<"E", "2">>
WellH2 == <<"H", "2">>

\* The dilution factors a Sample well comes with: unset, zero, negative, not a number,
\* and 3.
DilutionFactors == { Null, Some(Zero), Some(N(-2)), Some(NaN), Some(N(3)) }

\* A Sample well; an animal or a group that is not set is the empty string.
SampleWell(animalId, dilutionFactor) ==
    [type |-> "Sample", keep |-> TRUE, standardLevel |-> <<>>, animalId |-> animalId,
     group |-> <<"g">>, dilutionFactor |-> dilutionFactor]

SheetAssignment(wellId, dilutionFactor) ==
    IF wellId \in {WellC1, WellC2} THEN SampleWell(<<"m", "1">>, Some(N(2)))
    ELSE IF wellId \in {WellC3, WellD1} THEN SampleWell(<<"m", "2">>, dilutionFactor)
    ELSE IF wellId = WellH2 THEN [type |-> "Blank", keep |-> TRUE, standardLevel |-> <<>>]
    ELSE TabAssignment(wellId)

SheetLayout(dilutionFactor) ==
    [wellId \in {PlateOrder[k] : k \in 1..Len(PlateOrder)} |->
        SheetAssignment(wellId, dilutionFactor)]

\* The reader's list of the plate: the standards as before, the samples at 4.30, 4.80
\* and 6.30, the blanks at 0.05 and 0.55, the empty wells at 1.05 and 2.05, all over
\* 0.05 at 570 nm; NA for D1 and for the wells in unread.
SheetReadingLine(wellId, h450, unread) ==
    <<wellId, IF wellId \in unread THEN <<"N", "A">> ELSE Hundredths(h450), Hundredths(5)>>

SheetText(up, unread) ==
    TabText(up)
        \o << SheetReadingLine(WellC1, 430, unread), SheetReadingLine(WellC2, 480, unread),
              SheetReadingLine(WellC3, 630, unread), SheetReadingLine(WellD1, 30, {WellD1}),
              SheetReadingLine(WellH2, 55, unread), SheetReadingLine(WellE1, 105, unread),
              SheetReadingLine(WellE2, 205, unread) >>

\* The concentrations entered counting up to zero: -3, -2, -1, 0.
NonPositiveConcs ==
    [lvl \in {LevelLabel(i) : i \in 1..TabLevels} |-> N(LastNumber(lvl) - TabLevels)]

\* The parameters the 4PL iteration ends with: a curve rising from 0 to 8 and one
\* rising from 0 to 5, both with their midpoint at concentration 1 and slope 1.
ParamChoices == { FourPLParams(Zero, N(8), Zero, One), FourPLParams(Zero, N(5), Zero, One) }

\* The tabs followed: the 4PL model over every dilution factor and over both parameter sets;
\* both models without a usable concentration; and the polynomial model on a plate with
\* one sample read and a disturbed replicate among the standards.
SheetScenario(model, concs, dilutionFactor, params, up, unread) ==
    [model |-> model, concs |-> concs, dilutionFactor |-> dilutionFactor, params |-> params,
     up |-> up, unread |-> unread]

SheetScenarios ==
    { SheetScenario("4pl", TabConcs, d, FourPLParams(Zero, N(8), Zero, One), {}, {}) :
        d \in DilutionFactors }
    \cup { SheetScenario("4pl", TabConcs, Some(N(3)), p, {}, {}) : p \in ParamChoices }
    \cup { SheetScenario(m, NonPositiveConcs, Null, FourPLParams(Zero, N(8), Zero, One), {}, {}) :
             m \in {"4pl", "poly"} }
    \cup { SheetScenario("poly", TabConcs, Some(N(3)), FourPLParams(Zero, N(8), Zero, One),
                         {RowB[2]}, {WellC2, WellC3}) }

InitSheet ==
    /\ QcIdle /\ FitIdle /\ LibIdle
    /\ \E s \in SheetScenarios :
         /\ text = SheetText(s.up, s.unread)
         /\ parsed = [called |-> TRUE, result |-> parseElisaReaderText(text)]
         /\ wells = SheetLayout(s.dilutionFactor)
         /\ stdConcMap = s.concs
         /\ curveModel = s.model
         /\ lmParams = s.params
    /\ curveDegree = 2
    /\ useSuggestedStdExclusions = FALSE
    /\ events = 0
    /\ blankSubtract = DefaultBlankSubtract
    /\ outlierThreshold = DefaultOutlierThreshold
    /\ inputs = AutoQcInputs(stdLevels(wells, stdConcMap))
    /\ curve = curveKind(curveModel, curveDegree)
    /\ opts = NoOptions

NextSheet == NextQc \/ toggleKeep \/ ChangeBlankSubtract \/ ChangeOutlierThreshold

SpecSheet == InitSheet /\ [][NextSheet]_vars

(***************************************************************************)
(* Properties of suggestStandardCurveExclusions                            *)
(***************************************************************************)
\* r2 - excludedCount*replicatePenalty - droppedCount*levelPenalty, for a finite r2.
PenalizedR2(r2, excluded, dropped) ==
    Sub(Sub(r2, Mul(N(Cardinality(excluded)), ResolveOptions(opts).replicatePenalty)),
        Mul(N(Cardinality(dropped)), ResolveOptions(opts).levelPenalty))

ClearsMargin ==
    best.ok /\ Gt(best.score, Add(curScore, ResolveOptions(opts).minScoreImprove))

Returned == pc = "done"

\* C2, as claimed: whenever an action is returned, suggested.r2 >= baseline.r2, also
\* when the baseline r2 is NaN.
C2_SuggestedR2AtLeastBaseline ==
    (Returned /\ Len(result.actions) >= 1) => Ge(result.suggested.r2, result.baseline.r2)

\* C2, amended: whenever an action is returned (penalties and minScoreImprove >= 0), the
\* suggested r2 is a number, and suggested.r2 >= baseline.r2 when the baseline r2 is a
\* number too.  (When all level means are equal the baseline r2 is NaN and the comparison
\* is false.)
C2_SuggestedR2AtLeastFiniteBaseline ==
    (Returned /\ Len(result.actions) >= 1) =>
        /\ isFiniteNumber(result.suggested.r2)
        /\ isFiniteNumber(result.baseline.r2) =>
               Ge(result.suggested.r2, result.baseline.r2)

\* Actions were returned on a baseline with a finite r2 below the suggested r2.
C2_Witness ==
    /\ Returned
    /\ Len(result.actions) >= 1
    /\ isFiniteNumber(result.baseline.r2)
    /\ Gt(result.suggested.r2, result.baseline.r2)

Caps(acts, excluded, dropped, op) ==
    /\ Len(acts) <= op.maxActions
    /\ Cardinality(excluded) <= op.maxExcludedWells
    /\ Cardinality(dropped) <= op.maxDroppedLevels

UsablePairs(needPositiveX) ==
    {i \in 1..Min2(Len(raw.x), Len(raw.y)) :
        /\ isFiniteNumber(raw.x[i]) /\ isFiniteNumber(raw.y[i])
        /\ needPositiveX => Gt(raw.x[i], Zero)}

\* The points a fit of the chosen curve needs at least.
PointsNeeded == IF curve.kind = "4pl" THEN 4 ELSE curve.degree + 1

EnoughLevels(fit) == fit.ok => fit.nLevels >= PointsNeeded

\* C6: fitPolynomial returns null on fewer than degree+1 pairs with x and y finite, fit4pl
\* returns null on fewer than 4 pairs with finite x > 0 and finite y, and every non-null
\* fit summary of Auto-QC (baseline, current, best candidate, suggested) has at least 4
\* (4PL) or degree+1 (polynomial) levels.
C6_FitsNeedEnoughPoints ==
    /\ (fitted.fn = "poly" /\ Cardinality(UsablePairs(FALSE)) < fitted.degree + 1) =>
           ~fitted.fit.ok
    /\ (fitted.fn = "4pl" /\ Cardinality(UsablePairs(TRUE)) < 4) => ~fitted.fit.ok
    /\ EnoughLevels(baselineFit) /\ EnoughLevels(curFit) /\ EnoughLevels(best.fit)
    /\ EnoughLevels(result.baseline) /\ EnoughLevels(result.suggested)

\* fitPolynomial returned null on more pairs than it needs, too few of them finite.
C6_Witness ==
    /\ fitted.fn = "poly"
    /\ Min2(Len(raw.x), Len(raw.y)) >= fitted.degree + 1
    /\ Cardinality(UsablePairs(FALSE)) = fitted.degree
    /\ ~fitted.fit.ok

(***************************************************************************)
(* Properties of parseElisaReaderText                                      *)
(***************************************************************************)
Called == parsed.called

\* What parseElisaReaderText is to return, given what the two formats make of the text.
ChosenFrom(block, list, res) ==
    /\ block.ok => res = block
    /\ (~block.ok /\ list.ok) => res = list
    /\ res.format = "list" => ~block.ok
    /\ (~block.ok /\ ~list.ok) => (res.wells = NoWells /\ res.warnings = <<CouldNotParse>>)

\* C7: parseElisaReaderText returns the plate-block result whenever the plate-block
\* format accepts the text, the list result only when the plate-block format rejected
\* it, and when both reject it (the empty string included) a result with no wells and
\* the one warning 'Could not parse the reader output. ...'.
C7_PlateBlocksFirstThenListThenWarning ==
    Called =>
        /\ ChosenFrom(tryParsePlateBlocks(text), tryParseList(text), parsed.result)
        /\ (Len(text) = 1 /\ LineIsBlank(text[1])) => parsed.result.warnings = <<CouldNotParse>>

\* A text that both formats accept has been parsed, as plate blocks.
C7_Witness ==
    /\ Called
    /\ tryParsePlateBlocks(text).ok
    /\ tryParseList(text).ok
    /\ parsed.result.format = "plateBlocks"
    /\ parsed.result # tryParseList(text)

\* A cell that holds nothing or a sentinel token.
HoldsNoValue(cell) == Trim(cell) = <<>> \/ toUpperCase(Trim(cell)) \in Sentinels

NetIsDifference(r) ==
    IF r.a450.ok /\ r.a570.ok THEN r.net.ok /\ r.net.v = Sub(r.a450.v, r.a570.v)
    ELSE r.net = Null

\* A reading of null is the record Null: it is not the number 0.
NullWhereNoValue(cell, reading) == HoldsNoValue(cell) => (reading = Null /\ reading # Some(Zero))

\* The rows of a plate export that the eight plate rows were read from.
RowsRead(rows, headerIdx, start450, start570) ==
    SelectSeq(SubSeq(rows, headerIdx + 1, Len(rows)), LAMBDA row : hasAny(row, start450, start570))

PlateCellsAgree(ws, read, start450, start570) ==
    \A r \in 1..Len(PLATE96_ROWS), c \in 1..Len(PLATE96_COLS) :
        /\ NullWhereNoValue(Cell(read[r], start450 + c - 1),
                            ws[<<PLATE96_ROWS[r]>> \o DigitsOf(c)].a450)
        /\ NullWhereNoValue(Cell(read[r], start570 + c - 1),
                            ws[<<PLATE96_ROWS[r]>> \o DigitsOf(c)].a570)

PlateAgrees(ws, rows, headerIdx, ones) ==
    PlateCellsAgree(ws, RowsRead(rows, headerIdx, ones[1], ones[2]), ones[1], ones[2])

\* The last row of a list that names well w.
LastRowOf(w, rows, idxWell) ==
    rows[CHOOSE i \in 1..Len(rows) :
            /\ WellOfRow(rows[i], idxWell) = w
            /\ \A j \in (i + 1)..Len(rows) : WellOfRow(rows[j], idxWell) # w]

ListCellsAgree(ws, rows, idx450, idx570, idxWell) ==
    \A w \in DOMAIN ws :
        /\ NullWhereNoValue(Cell(LastRowOf(w, rows, idxWell), idx450), ws[w].a450)
        /\ NullWhereNoValue(Cell(LastRowOf(w, rows, idxWell), idx570), ws[w].a570)

ListAgrees(ws, h, rows) ==
    ListCellsAgree(ws, rows, findIndex(h, Names450), findIndex(h, Names570),
                   findIndex(h, NamesWell))

LowerHeaders(table) == [j \in 1..Len(table.headers) |-> toLowerCase(Trim(table.headers[j]))]

\* C8: in every well entry of a result, of either format, net is a450 - a570 when both
\* are non-null and null otherwise; and a reading whose cell is empty or holds a sentinel
\* token (NA, NAN, INF, #DIV/0!, UNDETERMINED, in any case) is null, not 0.
C8_NetAndNullReadings ==
    Called =>
        /\ \A w \in DOMAIN parsed.result.wells : NetIsDifference(parsed.result.wells[w])
        /\ (parsed.result.format = "plateBlocks" /\ parsed.result.wells # NoWells) =>
               PlateAgrees(parsed.result.wells, RowsOf(text), resolvedHeaderIdx(RowsOf(text)),
                           OneIndices(RowsOf(text)[resolvedHeaderIdx(RowsOf(text))]))
        /\ parsed.result.format = "list" =>
               ListAgrees(parsed.result.wells, LowerHeaders(parseTableText(text)),
                          parseTableText(text).rows)

\* A plate export has been parsed in which a well has a 450 reading and, for a sentinel
\* in its 570 cell, none at 570, and another well has both.
C8_Witness ==
    /\ Called
    /\ parsed.result.format = "plateBlocks"
    /\ \E w \in DOMAIN parsed.result.wells :
         /\ parsed.result.wells[w].a450.ok
         /\ parsed.result.wells[w].a570 = Null
         /\ parsed.result.wells[w].net = Null
    /\ \E w \in DOMAIN parsed.result.wells :
         /\ parsed.result.wells[w].net.ok
         /\ parsed.result.wells[w].net.v # parsed.result.wells[w].a450.v
    /\ \E i \in 1..Len(text) :
         \E j \in 1..Len(text[i]) : toUpperCase(Trim(text[i][j])) \in Sentinels

\* The data rows of a plate export: the rows after its header row.
DataRowsFrom(rows, headerIdx) == SubSeq(rows, headerIdx + 1, Len(rows))
DataRows(rows) == DataRowsFrom(rows, resolvedHeaderIdx(rows))

\* Where the two blocks of a plate export start.
BlockStartsOf(rows) == OneIndices(rows[resolvedHeaderIdx(rows)])

\* How many of the rows have a value in the block that starts at start.
PopulatedIn(dataRows, start) ==
    Len(SelectSeq(dataRows, LAMBDA row : HasValue(BlockValues(row, start))))

EightInBothBlocks(dataRows, starts) ==
    /\ PopulatedIn(dataRows, starts[1]) >= Len(PLATE96_ROWS)
    /\ PopulatedIn(dataRows, starts[2]) >= Len(PLATE96_ROWS)

PlateAccepted == Called /\ tryParsePlateBlocks(text).ok

\* C9: the plate-block format accepts a text only if at least 8 data rows have values
\* in the 450 block and at least 8 have values in the 570 block; any other text is
\* rejected by tryParsePlateBlocks and left to the list format.
C9_PlateBlocksNeedEightRowsInBothBlocks ==
    PlateAccepted => EightInBothBlocks(DataRows(RowsOf(text)), BlockStartsOf(RowsOf(text)))

\* The temperature cell of a data row: its first cell, unless that cell lies in a block.
TemperatureCell(row, starts) == IF starts[1] = 1 THEN Null ELSE toNumber(Cell(row, 1))

\* C10: a successful plate-block parse gives temperatureC the number in the first cell of
\* the first data row, and null when that cell is empty or not a number; the value never
\* comes from a later row or from an absorbance cell of a block.
C10_TemperatureFromFirstDataRowOnly ==
    PlateAccepted =>
        parsed.result.temperatureC
            = TemperatureCell(DataRows(RowsOf(text))[1], BlockStartsOf(RowsOf(text)))

(***************************************************************************)
(* Properties of the list format                                           *)
(***************************************************************************)
ListParsed == Called /\ parsed.result.format = "list"

\* The rows of a list whose well cell names a well, by position.
NamingRows(rows, idxWell) ==
    {k \in 1..Len(rows) : MatchesWell(Trim(Cell(rows[k], idxWell)))}

\* Without a well column the k-th data row is the k-th well in well order.
RowsInWellOrder(ws, rows, idx450, idx570) ==
    /\ DOMAIN ws = {plate96WellId(k - 1) : k \in 1..Len(rows)}
    /\ \A k \in 1..Len(rows) :
         ws[plate96WellId(k - 1)]
             = Reading(toNumber(Cell(rows[k], idx450)), toNumber(Cell(rows[k], idx570)))

\* With a well column a row belongs to the well its cell names, other rows are skipped.
RowsByWellCell(ws, rows, idxWell) ==
    DOMAIN ws = {WellOfMatch(Trim(Cell(rows[k], idxWell))) : k \in NamingRows(rows, idxWell)}

RowsMapped(ws, h, rows) ==
    IF findIndex(h, NamesWell) = 0
    THEN RowsInWellOrder(ws, rows, findIndex(h, Names450), findIndex(h, Names570))
    ELSE RowsByWellCell(ws, rows, findIndex(h, NamesWell))

\* C11: in a list without a well or position column the k-th data row gives the k-th
\* well in well order, for every row; with such a column a row gives the well that its
\* cell names and a row whose cell names no well is skipped.
C11_ListRowsMapToWells ==
    ListParsed =>
        RowsMapped(parsed.result.wells, LowerHeaders(parseTableText(text)),
                   parseTableText(text).rows)

(***************************************************************************)
(* Properties of the library functions                                     *)
(***************************************************************************)
Inverted4pl == returned.done /\ args.fn = "invert4pl"

AnyNotFinite(call) ==
    \/ ~isFiniteNumber(call.y) \/ ~FiniteParams(call.params)
    \/ ~isFiniteNumber(call.minConc) \/ ~isFiniteNumber(call.maxConc)

\* The target lies strictly between the asymptotes.
BetweenAsymptotes(call) ==
    /\ Lt(MinNum(call.params.A, call.params.D), call.y)
    /\ Lt(call.y, MaxNum(call.params.A, call.params.D))

Invertible(call) ==
    /\ ~AnyNotFinite(call)
    /\ BetweenAsymptotes(call)
    /\ Gt(call.params.B, Zero)
    /\ Gt(call.maxConc, call.minConc)

\* C12: invert4pl returns a concentration only when the target is strictly between the
\* asymptotes, B > 0 and maxConc > minConc, all arguments being finite; a concentration
\* it returns lies in [minConc, maxConc]; in every other case it returns null.
C12_Invert4plWithinAsymptotesAndRange ==
    Inverted4pl =>
        /\ returned.value.ok =>
             /\ Invertible(args)
             /\ Le(args.minConc, returned.value.v) /\ Le(returned.value.v, args.maxConc)
        /\ ~Invertible(args) => returned.value = Null

\* A target between the asymptotes whose concentration, 10^C / sqrt(frac), lies in the
\* range and was returned; the range has room below and above it.
C12_Witness ==
    /\ Inverted4pl
    /\ returned.value.ok
    /\ args.params.B = N(2)
    /\ returned.value.v # TenToThe(args.params.C[1])
    /\ Lt(args.minConc, returned.value.v) /\ Lt(returned.value.v, args.maxConc)

InvertedPoly == returned.done /\ args.fn = "invertPolyBySearch"

Searchable(call) ==
    /\ isFiniteNumber(call.y) /\ isFiniteNumber(call.minX) /\ isFiniteNumber(call.maxX)
    /\ Gt(call.maxX, call.minX)

\* C13: invertPolyBySearch returns null exactly when y, minX or maxX is not finite or
\* maxX <= minX; otherwise, whatever the coefficients, it returns an x with
\* minX <= x <= maxX.
C13_InvertPolyStaysInRange ==
    InvertedPoly =>
        /\ returned.value.ok <=> Searchable(args)
        /\ returned.value.ok =>
             (Le(args.minX, returned.value.v) /\ Le(returned.value.v, args.maxX))

(***************************************************************************)
(* Properties of the AnalysisTab                                           *)
(***************************************************************************)
\* C4: 'Apply suggestions', 'Use all kept standards' and the Auto-QC toggle leave the
\* layout as it is, and so does computing the suggestion; a step that changes the layout
\* is a toggleKeep, and it changes the keep flag of one well and nothing else.
C4_OnlyToggleKeepChangesTheLayout ==
    [][/\ (ClickApply \/ ClickReset \/ ToggleAutoQc \/ NextQc) => wells' = wells
       /\ wells' # wells =>
            /\ toggleKeep
            /\ \E wellId \in DOMAIN wells :
                 wells' = [wells EXCEPT ![wellId].keep = ~wells[wellId].keep]]_vars

\* The tab shows a suggestion that excludes a well, the suggestion is applied, and the
\* layout is the one the tab was mounted with: the excluded well is still kept.
C4_Witness ==
    /\ Rendered
    /\ applySuggested
    /\ events = MaxEvents
    /\ \E wellId \in result.excludedWellIds : wells[wellId].keep
    /\ wells = TabLayout

\* A level that the fits must leave out.
IsUnusable(l) ==
    \/ ~l.conc.ok
    \/ ~isFiniteNumber(l.conc.v)
    \/ Le(l.conc.v, Zero)
    \/ l.replicates = <<>>

LevelsOf(points) == {points[k].level : k \in 1..Len(points)}

NoPointOfUnusable(ls, displayed, autoQc) ==
    \A k \in 1..Len(ls) :
        IsUnusable(ls[k]) => (ls[k].level \notin displayed /\ ls[k].level \notin autoQc)

\* C5: a standard level with a concentration <= 0 or not finite, or without a usable
\* replicate, gives no point to a fit: not to the fits of Auto-QC, whose points all come
\* from its normalized levels, and not to the displayed fit of either model.
C5_UnusableLevelsGiveNoPoint ==
    Rendered => NoPointOfUnusable(stdLevels(wells, stdConcMap), LevelsOf(curveFitPoints),
                                  LevelsOf(levels))

(***************************************************************************)
(* Properties of the sample quantification and the table rows              *)
(***************************************************************************)
WellIdsOf(q) == [k \in 1..Len(q) |-> q[k].wellId]

\* One row for each kept Sample well with a finite net, in plate order, when a fit
\* exists; no row when none exists; a row without a concentration stays a row, without
\* an adjusted concentration.
QuantFollowsFit(q, fit) ==
    /\ fit.ok => WellIdsOf(q) = QuantifiedWells(wells)
    /\ \A k \in 1..Len(q) : ~q[k].conc.ok => ~q[k].concAdjusted.ok
    /\ ~fit.ok => q = <<>>

\* C14: when a curve fit exists, sampleQuant has exactly one row for each kept Sample
\* well with a finite net reading, in plate order; a well whose inversion is null keeps
\* its row, with conc and concAdjusted null, and the rows of the other wells are there all
\* the same; when no fit exists, sampleQuant is the empty list.
C14_OneRowPerKeptSampleWell == Rendered => QuantFollowsFit(sampleQuant, curveFit)

\* The factor of a well as the claim words it.
OwnFactorOrOne(w) ==
    IF w.dilutionFactor.ok /\ isFiniteNumber(w.dilutionFactor.v) /\ Gt(w.dilutionFactor.v, Zero)
    THEN w.dilutionFactor.v ELSE One

RowIsAdjusted(row, w) ==
    /\ row.dilutionFactor = OwnFactorOrOne(w)
    /\ row.conc.ok => row.concAdjusted = Some(Mul(row.conc.v, row.dilutionFactor))
    /\ ~row.conc.ok => row.concAdjusted = Null

AllAdjusted(q) == \A k \in 1..Len(q) : RowIsAdjusted(q[k], wells[q[k].wellId])

\* C15: in every row of sampleQuant, concAdjusted is conc * dilutionFactor when conc is
\* not null and null when conc is null, and dilutionFactor is the well's own factor when
\* that is finite and > 0, and 1 when it is unset, zero, negative or not finite.
C15_AdjustedByOwnDilution == Rendered => AllAdjusted(sampleQuant)

\* Rows with a concentration: one at the well's factor 2, one at 1 for a well whose
\* factor is zero, negative or not a number.
HasDilutedRow(q) ==
    /\ \E k \in 1..Len(q) :
         /\ q[k].conc.ok /\ q[k].dilutionFactor = N(2)
         /\ q[k].concAdjusted.v = Mul(N(2), q[k].conc.v)
    /\ \E k \in 1..Len(q) :
         /\ q[k].conc.ok /\ q[k].dilutionFactor = One
         /\ wells[q[k].wellId].dilutionFactor.ok
         /\ q[k].concAdjusted.v = q[k].conc.v
    /\ \E k \in 1..Len(q) : ~q[k].conc.ok

C15_Witness == Rendered /\ events > 0 /\ HasDilutedRow(sampleQuant)

\* The replicate group of a well as the claim words it: a standard's level, a sample's
\* animal and dilution factor, the blanks; an Empty well has none.
ReplicateGroup(w) ==
    CASE w.type = "Standard" -> <<"STD", LevelOf(w)>>
      [] w.type = "Sample" -> <<"SAMPLE", w.animalId, RowDilution(w).v>>
      [] w.type = "Blank" -> <<"BLANK">>
      [] OTHER -> <<>>

IsMember(ws, wellId, group, offset) ==
    /\ ws[wellId].type # "Empty"
    /\ HasValue96(ws, wellId, offset)
    /\ ReplicateGroup(ws[wellId]) = group

MembersOf(ws, group, offset) ==
    SelectSeq(ColumnMajorOrder, LAMBDA wellId : IsMember(ws, wellId, group, offset))

FarFromMedian(value, m, threshold) == m.ok /\ Gt(AbsNum(Sub(value, m.v)), threshold)

ExceedsIn(members, value, offset, threshold) ==
    /\ Len(members) >= 2
    /\ FarFromMedian(value, median(EntryValues(members, offset)), threshold)

\* Kept, with a finite blank-corrected net, in a group of two or more, and farther from
\* the group's median than the threshold.
ShouldBeFlagged(ws, wellId, offset, threshold) ==
    /\ ws[wellId].type # "Empty"
    /\ HasValue96(ws, wellId, offset)
    /\ ExceedsIn(MembersOf(ws, ReplicateGroup(ws[wellId]), offset),
                 Sub(ReadNet(wellId).v, offset), offset, threshold)

FlagOf(table, wellId) ==
    \E k \in 1..Len(table) : table[k].wellId = wellId /\ table[k].outlier

Partner(members, wellId) == IF members[1] = wellId THEN members[2] ELSE members[1]

\* In a group of two, the flag of a well is the flag of the other.
PairFlaggedTogether(table, ws, wellId, members) ==
    Len(members) = 2 => (FlagOf(table, wellId) <=> FlagOf(table, Partner(members, wellId)))

FlagsAgree(table, ws, offset, threshold) ==
    \A k \in 1..Len(table) :
        /\ table[k].outlier <=> ShouldBeFlagged(ws, table[k].wellId, offset, threshold)
        /\ (ws[table[k].wellId].type # "Empty" /\ HasValue96(ws, table[k].wellId, offset))
              => PairFlaggedTogether(table, ws, table[k].wellId,
                     MembersOf(ws, ReplicateGroup(ws[table[k].wellId]), offset))

\* C16: a row is flagged as an outlier exactly when its well is kept, has a finite
\* blank-corrected net, belongs to a group (the standards of a level, the samples of an
\* animal at a dilution factor, the blanks) of at least two such wells, and lies farther
\* from the group's median than the threshold; so a well alone in its group, a well that
\* is not kept and an Empty well are never flagged, and the two wells of a group of two
\* are flagged together or not at all.
C16_OutliersWithinReplicateGroups ==
    Rendered => FlagsAgree(tableRows, wells, blankOffset(wells), outlierThreshold)

\* The Blank wells that are kept and have a finite net, and their nets.
KeptBlanks(ws) ==
    SelectSeq(PlateOrder,
              LAMBDA wellId : /\ ws[wellId].type = "Blank" /\ ws[wellId].keep
                              /\ ReadNet(wellId).ok /\ isFiniteNumber(ReadNet(wellId).v))

\* Their median when blank subtraction is enabled and one exists at least, 0 otherwise.
ExpectedOffset(subtract, kept) ==
    IF subtract /\ kept # <<>> THEN median(NetsOf(kept)).v ELSE Zero

Corrected(wellId, offset) == Sub(ReadNet(wellId).v, offset)

ReplicatesCorrected(ls, offset) ==
    \A k \in 1..Len(ls) : \A j \in 1..Len(ls[k].replicates) :
        ls[k].replicates[j].y = Corrected(ls[k].replicates[j].wellId, offset)

SamplesCorrected(q, offset) ==
    \A k \in 1..Len(q) : q[k].netBlank = Corrected(q[k].wellId, offset)

\* The deviation shown is the one of the corrected value from the median of the
\* corrected values of the row's group.
GroupsCorrected(table, ws, offset) ==
    \A k \in 1..Len(table) : table[k].delta.ok =>
        table[k].delta.v =
            AbsNum(Sub(Corrected(table[k].wellId, offset),
                       median(EntryValues(GroupEntries(ws, GroupKey(ws[table[k].wellId]), offset),
                                          offset)).v))

OffsetEverywhere(offset) ==
    /\ blankOffset(wells) = offset
    /\ ReplicatesCorrected(stdLevels(wells, stdConcMap), offset)
    /\ ReplicatesCorrected(inputs, offset)
    /\ SamplesCorrected(sampleQuant, offset)
    /\ GroupsCorrected(tableRows, wells, offset)

\* C17: the blank offset is the median of the nets of the Blank wells that are kept and
\* have a finite net when blank subtraction is enabled and there is one such well at
\* least, and 0 otherwise; that one offset is subtracted from every standard replicate
\* (those handed to Auto-QC included), from every sample well and from every value of an
\* outlier group.
C17_OneBlankOffsetEverywhere ==
    Rendered => OffsetEverywhere(ExpectedOffset(blankSubtract, KeptBlanks(wells)))

\* Blank subtraction switched off over two kept blanks with a median of 0.25, samples
\* quantified and a deviation shown.
C17_Witness ==
    /\ Rendered
    /\ ~blankSubtract
    /\ Len(KeptBlanks(wells)) = 2
    /\ median(NetsOf(KeptBlanks(wells))).v = Num(1, 4)
    /\ blankOffset(wells) = Zero
    /\ Len(sampleQuant) > 1
    /\ \E k \in 1..Len(inputs) : Len(inputs[k].replicates) > 1
    /\ \E k \in 1..Len(tableRows) : tableRows[k].outlier

(***************************************************************************)
(* Properties of median and of the plate helpers                           *)
(***************************************************************************)
MedianReturned == args.fn = "median" /\ returned.done

\* The positions of the finite entries.
FiniteAt(values) == {i \in DOMAIN values : isFiniteNumber(values[i])}

\* How many finite entries lie below v, and how many do not lie above it.
Below(values, v) == Cardinality({i \in FiniteAt(values) : Lt(values[i], v)})
NotAbove(values, v) == Cardinality({i \in FiniteAt(values) : Le(values[i], v)})

\* The finite entry that stands at position r of the ascending order.
Ranked(values, r) ==
    CHOOSE v \in {values[i] : i \in FiniteAt(values)} :
        Below(values, v) < r /\ r <= NotAbove(values, v)

MiddleOf(values, n) ==
    IF n = 0 THEN Null
    ELSE IF n = 1 THEN Some(values[CHOOSE i \in FiniteAt(values) : TRUE])
    ELSE IF n % 2 = 1 THEN Some(Ranked(values, (n + 1) \div 2))
    ELSE Some(Div(Add(Ranked(values, n \div 2), Ranked(values, (n \div 2) + 1)), N(2)))

\* The same entries in another order.
Reordered(values, p) == [i \in DOMAIN values |-> values[p[i]]]

OrderIndependent(values, m) ==
    \A p \in Permutations(DOMAIN values) : median(Reordered(values, p)) = m

\* C18: median ignores the entries that are not finite and does not depend on the order
\* of its input: it returns null when no finite entry is left, the entry itself when one
\* is left, the middle entry of the ascending order for an odd count and the average of
\* the two central entries for an even count; the call leaves its argument as it was.
C18_MedianOfFiniteEntries ==
    /\ [](MedianReturned =>
            /\ returned.value = MiddleOf(args.values, Cardinality(FiniteAt(args.values)))
            /\ OrderIndependent(args.values, returned.value))
    /\ [][CallMedian => args' = args]_vars

\* The median 0.5 of 2, Infinity, -1 and NaN, in that order.
C18_Witness ==
    /\ MedianReturned
    /\ args.values = <<N(2), PosInf, N(-1), NaN>>
    /\ returned.value = Some(Num(1, 2))

ToWellIndexReturned == args.fn = "toWellIndex96" /\ returned.done
IndexToWellIdReturned == args.fn = "indexToWellId96" /\ returned.done
WellRangeReturned == args.fn = "wellRange96" /\ returned.done

\* An integer from 0 to 95.
IsPlateIndex(index) ==
    isFiniteNumber(index) /\ index[2] = 1 /\ index[1] >= 0 /\ index[1] < Len(PlateOrder)

\* Both directions of the round trip.
RoundTrips ==
    /\ (ToWellIndexReturned /\ args.wellId \in WellIds96) =>
          (returned.value.ok /\ indexToWellId96(returned.value.v) = args.wellId)
    /\ (IndexToWellIdReturned /\ IsPlateIndex(args.index)) =>
          (returned.value # NoWell /\ toWellIndex96(returned.value) = Some(args.index))

\* The wells from index a to index b, ascending.
WellsBetween(a, b) == [k \in 1..(b - a + 1) |-> plate96WellId(a + k - 1)]

RangeAsClaimed(from, to, range) ==
    /\ range = wellRange96(to, from)
    /\ (from \in WellIds96 /\ to \in WellIds96) =>
          range = WellsBetween(Min2(toWellIndex96(from).v[1], toWellIndex96(to).v[1]),
                               Max2(toWellIndex96(from).v[1], toWellIndex96(to).v[1]))

RangesHold == WellRangeReturned => RangeAsClaimed(args.from, args.to, returned.value)

\* C20 as stated: for every well id w in A1..H12, indexToWellId96(toWellIndex96(w)) = w;
\* for every integer i in 0..95, toWellIndex96(indexToWellId96(i)) = i; both return null
\* for every other argument; wellRange96(a, b) = wellRange96(b, a), the wells between
\* the two ends inclusive in ascending row-major order.
C20_RoundTripAndNullOutside ==
    /\ RoundTrips
    /\ (ToWellIndexReturned /\ args.wellId \notin WellIds96) => ~returned.value.ok
    /\ (IndexToWellIdReturned /\ ~IsPlateIndex(args.index)) => returned.value = NoWell
    /\ RangesHold

AllBlank(s, from, to) == \A x \in from..to : s[x] = " "

\* A well id written with i blanks before it, j blanks between its row letter (in either
\* case) and its column of d digits, and blanks after it.
WritesWellAt(s, i, j, d) ==
    /\ i + 1 + j + d <= Len(s)
    /\ AllBlank(s, 1, i)
    /\ \E r \in 1..Len(PLATE96_ROWS) : UpperChar(s[i + 1]) = PLATE96_ROWS[r]
    /\ AllBlank(s, i + 2, i + 1 + j)
    /\ \E c \in 1..Len(PLATE96_COLS) :
          SubSeq(s, i + j + 2, i + j + 1 + d) = DigitsOf(PLATE96_COLS[c])
    /\ AllBlank(s, i + j + d + 2, Len(s))

WritesWell(s) == \E i, j \in 0..Len(s) : \E d \in 1..2 : WritesWellAt(s, i, j, d)

\* A finite index that, cut to its integer part, lies in 0..95.
TruncatesIntoPlate(index) ==
    isFiniteNumber(index) /\ Gt(index, N(-1)) /\ Lt(index, N(Len(PlateOrder)))

\* C20, amended: the round trips hold for the well ids A1..H12 and the integers 0..95;
\* toWellIndex96 returns null exactly for the strings that do not write a well id (row
\* letter in either case, blanks allowed around the id and between letter and column),
\* and indexToWellId96 returns null exactly for the indices that are not finite or whose
\* integer part is outside 0..95; wellRange96 is symmetric and lists the wells between
\* its ends inclusive, ascending, and is empty when an end writes no well id.
C20_RoundTripAndNullForNoWell ==
    /\ RoundTrips
    /\ ToWellIndexReturned => (returned.value.ok <=> WritesWell(args.wellId))
    /\ IndexToWellIdReturned => (returned.value # NoWell <=> TruncatesIntoPlate(args.index))
    /\ RangesHold
    /\ (WellRangeReturned /\ (~WritesWell(args.from) \/ ~WritesWell(args.to))) =>
          returned.value = <<>>

\* The index 95 of "h 12", written in lower case with a blank, which is the index of H12.
C20_Witness ==
    /\ ToWellIndexReturned
    /\ args.wellId = <<"h", " ", "1", "2">>
    /\ returned.value = Some(N(95))
    /\ indexToWellId96(returned.value.v) = <<"H", "1", "2">>

(***************************************************************************)
(* Properties of the Auto-QC controls                                      *)
(***************************************************************************)
\* The points of all the kept standards, and those left by the suggestion.
AllKeptPoints == FitPoints(stdLevels(wells, stdConcMap), {}, {})
SuggestedPoints ==
    FitPoints(stdLevels(wells, stdConcMap), result.excludedWellIds, result.droppedLevels)

\* The suggestion has one action at least and a suggested fit.
SuggestionAtHand == Len(result.actions) > 0 /\ result.suggested.ok

\* The box of the Auto-QC toggle: checked={applySuggested}
ToggleChecked == applySuggested

\* C19: the exclusions of Auto-QC reach the fit only through the apply flag.  The fit
\* leaves out a kept standard only while the flag is set and a suggestion is at hand;
\* while the flag is off the toggle is unchecked and the fit is on all the kept standards;
\* while it is set and the suggestion has an action and a suggested fit the toggle is
\* checked and the fit is on the suggestion's points.  'Apply suggestions' is clicked only
\* while the suggestion has an action and a suggested fit, and the click sets the flag and
\* keeps the suggestion; 'Use all kept standards' clears the flag, and from then on the
\* flag stays off, whatever input changes, until a click on 'Apply suggestions' or on the
\* toggle.
C19_ExclusionsOnlyThroughApply ==
    /\ [](stdFitPoints # AllKeptPoints => (useSuggestedStdExclusions /\ SuggestionAtHand))
    /\ [](~useSuggestedStdExclusions => (~ToggleChecked /\ stdFitPoints = AllKeptPoints))
    /\ []((useSuggestedStdExclusions /\ SuggestionAtHand)
             => (ToggleChecked /\ stdFitPoints = SuggestedPoints))
    /\ [][ClickApply =>
            (SuggestionAtHand /\ useSuggestedStdExclusions' /\ result' = result)]_vars
    /\ [][ClickReset => ~useSuggestedStdExclusions']_vars
    /\ [][(~useSuggestedStdExclusions /\ useSuggestedStdExclusions')
             => (ClickApply \/ ToggleAutoQc)]_vars

\* The suggestion applied by the first click: the fit has fewer points or other means
\* than the kept standards give.
C19_Witness ==
    /\ Rendered
    /\ events = 1
    /\ ToggleChecked
    /\ stdFitPoints = SuggestedPoints
    /\ stdFitPoints # AllKeptPoints

(***************************************************************************)
(* Properties of the suggestion returned                                   *)
(***************************************************************************)
\* The wellIds of the replicates of a level.
WellIdsIn(l) == {l.replicates[k].wellId : k \in 1..Len(l.replicates)}

UsableLevels == {levels[i] : i \in 1..Len(levels)}

\* C21: in the returned suggestion every usable input level that is not dropped keeps a
\* replicate whose wellId is not excluded, also when a wellId occurs more than once.
C21_NoLevelEmptiedByExclusion ==
    Returned =>
        \A l \in UsableLevels :
            l.level \notin result.droppedLevels => WellIdsIn(l) \ result.excludedWellIds # {}

\* C28: no excluded wellId is a replicate of a dropped level.
C28_NoExcludedWellInDroppedLevel ==
    Returned =>
        \A l \in UsableLevels :
            l.level \in result.droppedLevels => WellIdsIn(l) \cap result.excludedWellIds = {}

\* The baseline fit of the call: the fit of the points of all the usable levels.
BaselineOfInputs == fitForPoints(buildPoints(NormalizeLevels(inputs), {}, {}), curve, lmSse)
NoBaseline == pc # "start" /\ ~BaselineOfInputs.ok

IsEmptySuggestion(r) ==
    /\ r.excludedWellIds = {}
    /\ r.droppedLevels = {}
    /\ r.actions = <<>>
    /\ ~r.baseline.ok
    /\ ~r.suggested.ok

\* C22: when no baseline fit is achievable the call has returned, with no excluded well,
\* no dropped level, no action and neither summary, and it has evaluated no candidate:
\* no best candidate was looked for and no candidate fit was asked of the 4PL fitter.
C22_EmptySuggestionWithoutBaseline ==
    NoBaseline =>
        /\ Returned
        /\ IsEmptySuggestion(result)
        /\ best = NoBest /\ step = 0 /\ actions = <<>>
        /\ lmSse = <<>>

\* The polynomial fitter returned null on enough points, all at one concentration.
C22_Witness ==
    /\ Returned
    /\ curve.kind = "poly"
    /\ Len(buildPoints(levels, {}, {})) >= curve.degree + 1
    /\ ~baselineFit.ok
    /\ IsEmptySuggestion(result)

ExcludeActions(acts) == {i \in 1..Len(acts) : acts[i].type = "exclude-replicate"}
DropActions(acts) == {i \in 1..Len(acts) : acts[i].type = "drop-level"}

SetsAgree(acts, excluded, dropped) ==
    /\ ExcludeActions(acts) \cup DropActions(acts) = 1..Len(acts)
    /\ excluded = {acts[i].wellId : i \in ExcludeActions(acts)}
    /\ dropped = {acts[i].level : i \in DropActions(acts)}
    /\ \A i, j \in ExcludeActions(acts) : acts[i].wellId = acts[j].wellId => i = j
    /\ \A i, j \in DropActions(acts) : acts[i].level = acts[j].level => i = j
    /\ Len(acts) = Cardinality(excluded) + Cardinality(dropped)
    /\ excluded \subseteq UNION {WellIdsIn(l) : l \in UsableLevels}
    /\ dropped \subseteq {l.level : l \in UsableLevels}

\* C29: the excluded wells are exactly the wells of the exclude-replicate actions, the
\* dropped levels exactly the levels of the drop-level actions, no well and no level is
\* acted on twice, there are as many actions as excluded wells and dropped levels
\* together, and every excluded well and dropped level is one of the usable levels; this
\* holds throughout the search and in what is returned.
C29_SetsAndActionsAgree ==
    /\ SetsAgree(actions, excludedWellIds, droppedLevels)
    /\ SetsAgree(result.actions, result.excludedWellIds, result.droppedLevels)

\* A suggestion with an excluded well and a dropped level.
C29_Witness ==
    /\ Returned
    /\ ExcludeActions(result.actions) # {}
    /\ DropActions(result.actions) # {}
    /\ Cardinality(result.excludedWellIds) + Cardinality(result.droppedLevels) >= 2

\* C30: a returned baseline comes with a suggested summary; without actions the
\* suggested summary is the baseline, with actions it is the fit of the last accepted
\* candidate, which every accepted step makes the current fit.
C30_SuggestedIsTheLastAcceptedFit ==
    /\ []((Returned /\ result.baseline.ok) =>
            /\ result.suggested.ok
            /\ result.actions = <<>> => result.suggested = result.baseline
            /\ result.actions # <<>> => result.suggested = curFit)
    /\ [][actions' # actions => (best.ok /\ curFit' = best.fit)]_vars

\* Actions were returned and the suggested summary is not the baseline.
C30_Witness ==
    /\ Returned
    /\ result.actions # <<>>
    /\ result.suggested = curFit
    /\ result.suggested # result.baseline

(***************************************************************************)
(* Properties of the displayed fit against the fits of Auto-QC             *)
(***************************************************************************)
\* The points curveFit passes on to the fitter of the chosen model, before the count
\* guard, as pairs <<x, y>>.
FittedByTab ==
    LET usable == SelectSeq(stdFitPoints, IsUsablePoint)
        clean == IF curveModel = "4pl" THEN SelectSeq(usable, IsCleanPoint) ELSE usable
    IN  [k \in 1..Len(clean) |-> <<clean[k].conc, clean[k].mean>>]

\* The points fitForPoints passes on for the given exclusion sets, as pairs <<x, y>>.
FittedByAutoQc(excluded, dropped) ==
    LET points == buildPoints(levels, excluded, dropped)
        clean == IF curve.kind = "4pl" THEN PositivePairs(Xs(points), Ys(points), 1)
                 ELSE FinitePairs(Xs(points), Ys(points), 1)
    IN  [k \in 1..Len(clean) |-> <<clean[k].x, clean[k].y>>]

PairXs(pairs) == [k \in 1..Len(pairs) |-> pairs[k][1]]
PairYs(pairs) == [k \in 1..Len(pairs) |-> pairs[k][2]]

\* r2 of the displayed fit of the pairs.
DisplayedR2(pairs) ==
    IF curveModel = "4pl" THEN fit4pl(PairXs(pairs), PairYs(pairs), lmSse).r2
    ELSE fitPolynomial(PairXs(pairs), PairYs(pairs), curveDegree).r2

\* C23: with the suggestion applied the tab fits the points of Auto-QC's suggested
\* summary (the levels that are not dropped, at the means of their replicates that are
\* not excluded) and the displayed r2 is suggested.r2; without it the tab fits the points
\* of Auto-QC's baseline.
C23_TabFitsThePointsOfAutoQc ==
    Rendered =>
        IF applySuggested
        THEN /\ FittedByTab = FittedByAutoQc(result.excludedWellIds, result.droppedLevels)
             /\ DisplayedR2(FittedByTab) = result.suggested.r2
        ELSE FittedByTab = FittedByAutoQc({}, {})

(***************************************************************************)
(* Properties of the cost of invertPolyBySearch                            *)
(***************************************************************************)
\* How often the search of a call evaluates the polynomial.
EvaluationsOf(call) == Search(call.coeff, call.y, call.minX, call.maxX).evals

\* C24, as claimed: a call that does not return null at once evaluates the polynomial
\* at most 628 times.
C24_AtMost628Evaluations ==
    (InvertedPoly /\ Searchable(args)) => EvaluationsOf(args) <= 628

\* C24, amended: a call that does not return null at once evaluates the polynomial
\* 657 times: once at minX, once at each of the 600 scan points and twice in each of
\* the 28 refinement iterations.
C24_Exactly657Evaluations ==
    (InvertedPoly /\ Searchable(args)) =>
        /\ EvaluationsOf(args) = 1 + steps + 2 * RefineIterations
        /\ 1 + steps + 2 * RefineIterations = 657

\* A search that moved its best point off minX, at the full count.
C24_Witness ==
    /\ InvertedPoly
    /\ Searchable(args)
    /\ returned.value.ok
    /\ returned.value.v # args.minX
    /\ EvaluationsOf(args) > 628

(***************************************************************************)
(* fit4pl followed step by step (logistic4pl.ts)                           *)
(*                                                                         *)
(* A call is followed through its restarts and iterations.  What the       *)
(* floating-point evaluation of the model yields (the SSE of a parameter   *)
(* vector, the Jacobian products of an iteration) is drawn from small      *)
(* sets; what the loop does with these values is as the code does it.      *)
(***************************************************************************)
MaxIter == 2
MaxRestarts == 2

\* Math.max, Math.min and Math.sign: NaN when an argument is NaN.
mathMax(a, b) == IF a = NaN \/ b = NaN THEN NaN ELSE MaxNum(a, b)
mathMin(a, b) == IF a = NaN \/ b = NaN THEN NaN ELSE MinNum(a, b)
mathSign(a) == IF a = NaN THEN NaN ELSE N(Sign(a))

\* clamp of logistic4pl.ts: Math.min(hi, Math.max(lo, v))
clamp4pl(v, lo, hi) == mathMin(hi, mathMax(lo, v))

\* Math.log10, exact on the powers of ten (the usable x of the calls followed).
RECURSIVE log10(_)
log10(x) ==
    IF x = One THEN Zero
    ELSE IF Lt(x, One) THEN Sub(log10(Mul(x, N(10))), One)
    ELSE Add(log10(Div(x, N(10))), One)

\* clean: { xLog, y } of the pairs with finite x > 0 and finite y.
LogPairs(c) == [k \in 1..Len(c) |-> [xLog |-> log10(c[k].x), y |-> c[k].y]]
cleanOf(xConc, y) == LogPairs(PositivePairs(xConc, y, 1))
XLogs(clean) == [k \in 1..Len(clean) |-> clean[k].xLog]

\* The direction of a rough linear trend in log space.
Covariance(xs, ys, xMean, yMean) ==
    SumSeq([i \in 1..Len(xs) |-> Mul(Sub(xs[i], xMean), Sub(ys[i], yMean))])
SlopeSignOf(cov, varx) == IF Gt(varx, Zero) THEN mathSign(Div(cov, varx)) ELSE One
slopeSign(xs, ys) ==
    SlopeSignOf(Covariance(xs, ys, MeanOf(xs), MeanOf(ys)), SquaredDeviations(xs, MeanOf(xs)))

A0(clean) == IF Ge(slopeSign(XLogs(clean), Ys(clean)), Zero)
             THEN MinOf(Ys(clean)) ELSE MaxOf(Ys(clean))
D0(clean) == IF Ge(slopeSign(XLogs(clean), Ys(clean)), Zero)
             THEN MaxOf(Ys(clean)) ELSE MinOf(Ys(clean))

\* C0: the xLog of the first point whose y is nearest to mid.
RECURSIVE MidScan(_, _, _, _, _)
MidScan(clean, mid, i, bestMid, c0) ==
    IF i > Len(clean) THEN c0
    ELSE IF Lt(AbsNum(Sub(clean[i].y, mid)), bestMid)
        THEN MidScan(clean, mid, i + 1, AbsNum(Sub(clean[i].y, mid)), clean[i].xLog)
        ELSE MidScan(clean, mid, i + 1, bestMid, c0)
C0(clean) ==
    MidScan(clean, Div(Add(A0(clean), D0(clean)), N(2)), 1, PosInf,
            clean[(Len(clean) \div 2) + 1].xLog)

\* Math.log of the guesses 0.6, 1.0, 1.8, 3.0 of B, to four decimals.
LogBGuesses == <<Num(-5108, 10000), Zero, Num(5878, 10000), Num(10986, 10000)>>
\* BGuesses.length: [..].slice(0, Math.max(1, restarts))
GuessCount(restarts) == Min2(Len(LogBGuesses), Max2(1, restarts))

\* p at the start of the restart with the guess-th guess of B.
StartVector(clean, guess) == <<A0(clean), D0(clean), C0(clean), LogBGuesses[guess]>>

\* The damping factor lambda is m * 10^e with 1 <= m < 10, or zero: 1e-12 and 1e12
\* are no ratios of 32-bit integers.
Sci(m, e) == [m |-> m, e |-> e]
SciZero == Sci(Zero, 0)

RECURSIVE Normal(_)
Normal(l) ==
    IF l.m = Zero THEN SciZero
    ELSE IF Ge(l.m, N(10)) THEN Normal(Sci(Div(l.m, N(10)), l.e + 1))
    ELSE IF Lt(l.m, One) THEN Normal(Sci(Mul(l.m, N(10)), l.e - 1))
    ELSE l

Times(l, f) == Normal(Sci(Mul(l.m, f), l.e))

\* a < b for damping factors (none is negative).
SciLt(a, b) ==
    IF b.m = Zero THEN FALSE
    ELSE IF a.m = Zero THEN TRUE
    ELSE a.e < b.e \/ (a.e = b.e /\ Lt(a.m, b.m))
SciMax(a, b) == IF SciLt(a, b) THEN b ELSE a
SciMin(a, b) == IF SciLt(b, a) THEN b ELSE a

LambdaFloor == Sci(One, -12)
LambdaCap == Sci(One, 12)
\* opts.lambda0 ?? 1e-2
DefaultLambda0 == Sci(One, -2)

\* Math.max(1e-12, lambda * 0.35) and Math.min(1e12, lambda * 10)
Shrink(l) == SciMax(LambdaFloor, Times(l, Num(35, 100)))
Grow(l) == SciMin(LambdaCap, Times(l, N(10)))

InLambdaRange(l) == ~SciLt(l, LambdaFloor) /\ ~SciLt(LambdaCap, l)

\* The values the SSE of a model that is not flat takes here.
SseLevels == {Zero, One, N(2)}
\* sseFor(p) of the start vector of a restart, when the model is not flat.
StartSse == N(2)

\* The SSE of a flat model (A = D): every prediction is A.
FlatSse(clean, a) == SumSeq([k \in 1..Len(clean) |-> Square(Sub(clean[k].y, a))])

\* sseFor(pp): a prediction is NaN or an infinity when A, D, C or b is not finite.
sseFor(clean, pp) ==
    IF \E j \in 1..4 : ~isFiniteNumber(pp[j]) THEN {NaN, PosInf}
    ELSE IF pp[1] = pp[2] THEN {FlatSse(clean, pp[1])}
    ELSE SseLevels

\* sseFor(pCand), which is curSse when the candidate is p itself.
sseOfCandidate(clean, pCand, p, curSse) == IF pCand = p THEN {curSse} ELSE sseFor(clean, pCand)

\* JTr of an iteration and, with JTJ the identity, the step delta.
DeltaChoices ==
    {<<Zero, Zero, Zero, Zero>>,
     <<Num(1, 2), Zero, Num(1, 2), Num(-1, 2)>>,
     <<One, N(-1), N(3), N(5)>>,
     <<Zero, Zero, N(-9), N(-9)>>,
     <<NaN, Zero, NaN, Zero>>,
     <<Zero, PosInf, PosInf, NegInf>>}

\* JTJ of a well-conditioned iteration.
IdentityJTJ ==
    <<<<One, Zero, Zero, Zero>>, <<Zero, One, Zero, Zero>>,
      <<Zero, Zero, One, Zero>>, <<Zero, Zero, Zero, One>>>>
\* JTJ where no prediction depends on C or b (as when A = D).
FlatJTJ ==
    <<<<One, One, Zero, Zero>>, <<One, One, Zero, Zero>>,
      <<Zero, Zero, Zero, Zero>>, <<Zero, Zero, Zero, Zero>>>>

JTJChoices(p) == IF p[1] = p[2] THEN {FlatJTJ} ELSE {IdentityJTJ, FlatJTJ}

\* solveLinearSystem(JTJ, JTr) after JTJ[d][d] += lambda.  Without damping the
\* system is solved as it is.  With damping JTJ + lambda I is positive definite
\* (every pivot is at least lambda >= 1e-12), and the step is one of DeltaChoices.
StepChoices(lambda, p) ==
    IF lambda = SciZero
    THEN {solveLinearSystem(M, v) : M \in JTJChoices(p), v \in DeltaChoices}
    ELSE {[ok |-> TRUE, x |-> d] : d \in DeltaChoices}

\* p + delta as it is
pCandUnclamped(p, delta, minX, maxX) ==
    <<Add(p[1], delta[1]), Add(p[2], delta[2]), Add(p[3], delta[3]), Add(p[4], delta[4])>>

\* pCand: p + delta with C clamped to [minX - 2, maxX + 2] and b to [-4, 4].
pCandOf(p, delta, minX, maxX) ==
    <<Add(p[1], delta[1]), Add(p[2], delta[2]),
      clamp4pl(Add(p[3], delta[3]), Sub(minX, N(2)), Add(maxX, N(2))),
      clamp4pl(Add(p[4], delta[4]), N(-4), N(4))>>

\* sseCand <= curSse
improvedOrEqual(sseCand, curSse) == Le(sseCand, curSse)

\* sseCand + 1e-12 < curSse (two different SSEs here differ by far more than 1e-12)
improved(sseCand, curSse) == Lt(sseCand, curSse)

\* Math.sqrt(sum of delta[j]^2) < tol, for the default tol of 1e-10: a step of the
\* model that is not zero is longer.
StepBelowTol(delta) == \A j \in 1..4 : delta[j] = Zero

\* B = Math.exp(b) is kept as its exponent.
Exp(b) == [exp |-> b]

\* The fit a restart ends with.
FitOfRestart(clean, p, curSse) ==
    [ok |-> TRUE,
     params |-> [A |-> p[1], D |-> p[2], C |-> p[3], B |-> Exp(clamp4pl(p[4], N(-4), N(4)))],
     r2 |-> R2(curSse, SsTot(Ys(clean))),
     sse |-> curSse,
     n |-> Len(clean)]

NoBestFit == [ok |-> FALSE]

\* if (!bestFit || (Number.isFinite(fit.sse) && fit.sse < bestFit.sse)) bestFit = fit
BetterFit(bestFit, fit) ==
    IF ~bestFit.ok \/ (isFiniteNumber(fit.sse) /\ Lt(fit.sse, bestFit.sse)) THEN fit ELSE bestFit

\* The options of the calls followed.
Fit4plOptions ==
    {[maxIter |-> MaxIter, lambda0 |-> Undefined, restarts |-> MaxRestarts],
     [maxIter |-> MaxIter, lambda0 |-> Given(SciZero), restarts |-> 1],
     [maxIter |-> MaxIter, lambda0 |-> Given(LambdaFloor), restarts |-> 1],
     [maxIter |-> MaxIter, lambda0 |-> Given(LambdaCap), restarts |-> 1],
     [maxIter |-> 0, lambda0 |-> Undefined, restarts |-> 0]}

lambda0Of(o) == IF o.lambda0.given THEN o.lambda0.value ELSE DefaultLambda0

\* The locals of a restart at its start.
StartOfRestart(run, guess) ==
    [run EXCEPT !.phase = "iterate",
                !.guess = guess,
                !.iter = 0,
                !.p = StartVector(run.clean, guess),
                !.lambda = run.lambda0,
                !.curSse = CHOOSE s \in sseFor(run.clean, StartVector(run.clean, guess)) :
                               s = StartSse \/ StartVector(run.clean, guess)[1] =
                                                   StartVector(run.clean, guess)[2]]

\* The locals of a call before its first restart.
RunOf(clean, o) ==
    [phase |-> "iterate", clean |-> clean, minX |-> MinOf(XLogs(clean)),
     maxX |-> MaxOf(XLogs(clean)), maxIter |-> o.maxIter, lambda0 |-> lambda0Of(o),
     guesses |-> GuessCount(o.restarts), guess |-> 0, iter |-> 0, p |-> <<>>,
     lambda |-> SciZero, curSse |-> NaN, delta |-> <<>>, pCand |-> <<>>, sseCand |-> NaN,
     singular |-> FALSE, bestFit |-> NoBestFit]

\* A call that returned null: fewer than 4 usable pairs.
ReturnedNull == [phase |-> "returned", singular |-> FALSE, bestFit |-> NoBestFit]

lmFrame == <<raw, fitted, lmSse, qcVarsButLmSse, readerVars, tabVars, libVars>>

\* fit4pl(raw.x, raw.y, o) up to the start of the first restart
StartFit4pl ==
    /\ raw.given
    /\ fitted.fn = "none"
    /\ lm = NoRun
    /\ \E o \in Fit4plOptions :
         lm' = IF Len(cleanOf(raw.x, raw.y)) < 4 THEN ReturnedNull
               ELSE StartOfRestart(RunOf(cleanOf(raw.x, raw.y), o), 1)
    /\ UNCHANGED lmFrame

\* One iteration up to sseCand: the step is solved for and the candidate evaluated;
\* the loop is left when the solver returns null.
Propose ==
    /\ lm.phase = "iterate"
    /\ lm.iter < lm.maxIter
    /\ \E sol \in StepChoices(lm.lambda, lm.p) :
         IF ~sol.ok
         THEN lm' = [lm EXCEPT !.phase = "ended", !.singular = TRUE]
         ELSE \E s \in sseOfCandidate(lm.clean, pCandOf(lm.p, sol.x, lm.minX, lm.maxX),
                                      lm.p, lm.curSse) :
                lm' = [lm EXCEPT !.phase = "proposed",
                                 !.delta = sol.x,
                                 !.pCand = pCandOf(lm.p, sol.x, lm.minX, lm.maxX),
                                 !.sseCand = s]
    /\ UNCHANGED lmFrame

\* The rest of the iteration: the candidate is accepted or rejected.
Decide ==
    /\ lm.phase = "proposed"
    /\ lm' = IF improved(lm.sseCand, lm.curSse)
             THEN [lm EXCEPT !.p = lm.pCand,
                             !.curSse = lm.sseCand,
                             !.lambda = Shrink(lm.lambda),
                             !.iter = @ + 1,
                             !.phase = IF StepBelowTol(lm.delta) THEN "ended" ELSE "iterate"]
             ELSE [lm EXCEPT !.lambda = Grow(lm.lambda),
                             !.iter = @ + 1,
                             !.phase = "iterate"]
    /\ UNCHANGED lmFrame

\* After the loop: the fit of the restart, bestFit, and the next restart or the return.
EndRestart ==
    /\ lm.phase = "ended" \/ (lm.phase = "iterate" /\ lm.iter >= lm.maxIter)
    /\ lm' = IF lm.guess < lm.guesses
             THEN StartOfRestart(
                      [lm EXCEPT !.bestFit = BetterFit(@, FitOfRestart(lm.clean, lm.p, lm.curSse))],
                      lm.guess + 1)
             ELSE [lm EXCEPT !.phase = "returned",
                             !.bestFit = BetterFit(@, FitOfRestart(lm.clean, lm.p, lm.curSse))]
    /\ UNCHANGED lmFrame

\* The arrays of the calls followed: the usable x are powers of ten.
Decades == <<One, One, N(10), N(10)>>
RunArrays ==
    {[given |-> TRUE, x |-> Decades, y |-> <<One, N(2), N(3), N(4)>>],
     [given |-> TRUE, x |-> Decades, y |-> <<N(5), N(5), N(5), N(5)>>],
     [given |-> TRUE, x |-> <<N(10), N(10), NaN, One, One>>,
      y |-> <<N(4), N(3), N(9), N(3), One>>],
     [given |-> TRUE, x |-> <<N(10), N(10), N(10), N(10)>>, y |-> <<One, N(2), N(3), N(4)>>],
     [given |-> TRUE, x |-> <<One, N(10), N(10)>>, y |-> <<One, N(2), N(3)>>]}

InitLm ==
    /\ QcIdle /\ ReaderIdle /\ TabIdle /\ LibIdle
    /\ raw \in RunArrays
    /\ fitted = NoCall
    /\ lm = NoRun
    /\ inputs = <<>>
    /\ curve = FourPL
    /\ opts = NoOptions

NextLm == StartFit4pl \/ Propose \/ Decide \/ EndRestart \/ CallFitPolynomial

SpecLm == InitLm /\ [][NextLm]_vars

(***************************************************************************)
(* Properties of the Levenberg-Marquardt run of fit4pl                     *)
(***************************************************************************)
\* A restart is within its loop or has just left it.
InRestart == lm.phase \in {"iterate", "proposed", "ended"}

\* The candidate at hand lowers the SSE.
LowersSse == lm.phase = "proposed" /\ Lt(lm.sseCand, lm.curSse)
KeepsSse == lm.phase = "proposed" /\ ~Lt(lm.sseCand, lm.curSse)

\* What a step within one restart does to p, curSse and lambda: p changes only when the
\* candidate lowers the SSE; then the candidate and its SSE are taken and lambda is
\* multiplied by 0.35 (not below 1e-12); otherwise p and curSse stay and lambda is
\* multiplied by 10 (not above 1e12); curSse never rises.
StepOfRestart ==
    (InRestart /\ lm'.phase \in {"iterate", "proposed", "ended"} /\ lm'.guess = lm.guess) =>
        /\ lm'.p # lm.p => LowersSse
        /\ LowersSse =>
               lm'.p = lm.pCand /\ lm'.curSse = lm.sseCand /\ lm'.lambda = Shrink(lm.lambda)
        /\ KeepsSse =>
               lm'.p = lm.p /\ lm'.curSse = lm.curSse /\ lm'.lambda = Grow(lm.lambda)
        /\ Le(lm'.curSse, lm.curSse)

\* C25, as claimed: within one run the parameter vector changes only on a step that
\* lowers the SSE; an improving step takes the candidate and multiplies lambda by 0.35,
\* any other step keeps p and curSse and multiplies lambda by 10; the SSE never rises
\* and lambda stays within [1e-12, 1e12], whatever the options of the call.
C25_LambdaAlwaysInRange ==
    /\ [][StepOfRestart]_vars
    /\ [](InRestart => InLambdaRange(lm.lambda))

\* C25, amended: the same, with lambda within [1e-12, 1e12] when lambda0 is (as the
\* default 0.01 is), the products by 0.35 and by 10 being held at these two ends.
C25_LambdaInRangeWhenLambda0Is ==
    /\ [][StepOfRestart]_vars
    /\ [](InRestart /\ InLambdaRange(lm.lambda0) => InLambdaRange(lm.lambda))

\* A restart under the default lambda0 that took one candidate and refused another.
C25_Witness ==
    /\ InRestart
    /\ lm.lambda0 = DefaultLambda0
    /\ lm.iter = 2
    /\ lm.p # StartVector(lm.clean, lm.guess)
    /\ Lt(lm.curSse, StartSse)
    /\ lm.lambda = Times(DefaultLambda0, Num(35, 10))

\* The extremes of log10 of the usable x of the call.
minLogX == MinOf(XLogs(cleanOf(raw.x, raw.y)))
maxLogX == MaxOf(XLogs(cleanOf(raw.x, raw.y)))

CWithinBounds(c) == Ge(c, Sub(minLogX, N(2))) /\ Le(c, Add(maxLogX, N(2)))
LogSlopeWithinBounds(b) == Ge(b, N(-4)) /\ Le(b, N(4))

\* C26: at the start of every iteration of every restart, and in the fit returned, C is
\* within [minLogX - 2, maxLogX + 2] and the log-slope term within [-4, 4], so that the
\* returned B = exp(log-slope) is within [exp(-4), exp(4)].
C26_CAndLogSlopeClamped ==
    /\ lm.phase = "iterate" => CWithinBounds(lm.p[3]) /\ LogSlopeWithinBounds(lm.p[4])
    /\ (lm.phase = "returned" /\ lm.bestFit.ok) =>
           /\ CWithinBounds(lm.bestFit.params.C)
           /\ LogSlopeWithinBounds(lm.bestFit.params.B.exp)

\* A returned fit that took a step beyond both bounds: C and the log-slope sit on them.
C26_Witness ==
    /\ lm.phase = "returned"
    /\ lm.bestFit.ok
    /\ lm.bestFit.params.C = Add(maxLogX, N(2))
    /\ lm.bestFit.params.B.exp = N(4)
    /\ lm.bestFit.params.A # A0(lm.clean)

(***************************************************************************)
(* Properties of the fitters on singular systems                           *)
(***************************************************************************)
\* The solver returned null on the normal equations of the polynomial call.
NormalSolution(clean, degree) == SolveNormal(clean, PowerTable(clean, degree), degree + 1)
PolySolverGaveNull ==
    /\ fitted.fn = "poly"
    /\ Len(FinitePairs(raw.x, raw.y, 1)) >= fitted.degree + 1
    /\ ~NormalSolution(FinitePairs(raw.x, raw.y, 1), fitted.degree).ok

\* The solver returned null in an iteration of the call of fit4pl that has returned.
LmSolverGaveNull == lm.phase = "returned" /\ lm.singular

\* C27: a singular system gives a null result: when solveLinearSystem returns null (a
\* pivot below 1e-12 in size) fitPolynomial returns null, and fit4pl returns null when
\* the solver returned null during its iterations.
C27_SingularGivesNull ==
    /\ PolySolverGaveNull => ~fitted.fit.ok
    /\ LmSolverGaveNull => ~lm.bestFit.ok

====
